---- MODULE Spec2Model ----
(***************************************************************************)
(* Registration and approval state machine of the event-management         *)
(* backend (src/routes/events.js, src/models/event.js,                     *)
(* src/models/registration.js).                                            *)
(*                                                                         *)
(* The store holds one Event document and a collection of Registration     *)
(* documents.  Every HTTP request is a process that runs its handler from   *)
(* one database operation (an await) to the next; the code between two      *)
(* database operations is local to the request and is part of the step      *)
(* that ends with the next database operation.  Requests interleave at      *)
(* these steps.                                                            *)
(***************************************************************************)
EXTENDS Integers, Sequences, FiniteSets, TLC

\* ------------------------------------------------------------- bounds
MaxUsers == 2       \* participants 1..MaxUsers
MaxReqs == 2        \* requests that can be in flight at the same time
NumVariants == 1    \* variants of a merchandise event
InitStock == 1      \* stockQuantity of every variant when the event is published
MaxPrice == 1       \* variant prices and registration fees range over 0..MaxPrice
MaxQty == 1         \* merchandiseSelection.quantity ranges over 1..MaxQty
RegLimit == 2       \* registrationLimit of a normal event
MaxOverlaps == 1    \* times a request may start while another one is in flight
MaxHistory == 3     \* scanHistory entries written over all registrations
MaxAttendees == 1   \* registrations followed through the attendance life cycle
HexBase == 2        \* digits of the hexadecimal notation; bytes are below its square
BlockSize == 2      \* bytes of a cipher block
MaxName == 2        \* characters of an event name
MaxDay == 1         \* dates (today, registrationDeadline) range over 0..MaxDay

Users == 1..MaxUsers
Reqs == 1..MaxReqs
VariantIds == 1..NumVariants

\* --------------------------------------------------------- documents
VARIABLES event, registrations, reqs, uuidCount, overlaps, today, codec, query

vars == <<event, registrations, reqs, uuidCount, overlaps, today, codec, query>>

\* A gate that does not block: not_required or approved.
GateClear(g) == g \in {"not_required", "approved"}

\* `merchandiseSelection.quantity || 1`
QuantityOrOne(q) == IF q = 0 THEN 1 ELSE q

\* A Registration document; ticketId 0 is null, qrCodeEncrypted 0 is unset
\* (qrCodeIV is set and unset with it), variantId 0 is an absent
\* merchandiseSelection, attendanceTimestamp 0 is unset.
NewRegistration(userId, ticketId, status, paymentStatus, pay, appr, variantId, quantity) ==
  [userId |-> userId, ticketId |-> ticketId, status |-> status,
   paymentStatus |-> paymentStatus,
   paymentApprovalStatus |-> pay, registrationApprovalStatus |-> appr,
   qrCodeEncrypted |-> 0, paymentProofImage |-> FALSE,
   variantId |-> variantId, quantity |-> quantity,
   attendanceStatus |-> "not_checked", attendanceTimestamp |-> 0,
   manualOverride |-> FALSE, scanHistory |-> <<>>]

NoRegistration == NewRegistration(0, 0, "none", "none", "none", "none", 0, 0)

\* An Event document after creation and publication.  A merchandise event has
\* fee 0 and no registrationLimit (0: undefined); a normal event has no variants.
\* It is open to all, and its registration deadline is the last day.
NewEvent(eventType, requiresApproval, fee, variants) ==
  [eventType |-> eventType, status |-> "published",
   requiresApproval |-> requiresApproval,
   eligibility |-> "all", registrationDeadline |-> MaxDay, description |-> 0,
   registrationFee |-> IF eventType = "merchandise" THEN 0 ELSE fee,
   registrationLimit |-> IF eventType = "normal" THEN RegLimit ELSE 0,
   variants |-> IF eventType = "merchandise" THEN variants ELSE <<>>,
   totalRegistrations |-> 0, totalRevenue |-> 0, totalAttendance |-> 0]

NoEvent == [NewEvent("none", FALSE, 0, <<>>) EXCEPT !.status = "none"]

\* ---------------------------------------------------------- requests
\* A date the request body does not carry.
NoDate == -1

\* A registrationFee the request body does not carry (undefined).
NoFee == -1

\* A request body without merchandiseDetails.
NoDetails == [given |-> FALSE, variants |-> <<>>]

\* A scan body without qrData.  A qrData is a text that is not JSON (the
\* ticket id it spells, shape "text") or an object (shape "object") with, or
\* without ("none"), the pair data and iv, which decrypts to a JSON text
\* holding the ticketId `inner` ("good") or does not ("corrupt"), with a
\* ticketId field and a ticket.id field (0 when absent).
NoQr == [shape |-> "none", text |-> 0, sealed |-> "none", inner |-> 0,
         ticketId |-> 0, ticket |-> 0]

\* The query string of a listing without parameters: search 0 is no search,
\* organizerId 0 no organizer, status {} no status list.
NoFilter ==
  [search |-> 0, type |-> "none", eligibility |-> "none", startDate |-> NoDate,
   endDate |-> NoDate, organizerId |-> 0, status |-> {}]

IdleReq ==
  [op |-> "idle", pc |-> "idle", userId |-> 0, rid |-> 0, variantId |-> 0,
   quantity |-> 0, ticketId |-> 0, status |-> "none", reasonLength |-> 0,
   description |-> 0, registrationDeadline |-> NoDate, registrationLimit |-> 0,
   eventType |-> "none", registrationFee |-> NoFee,
   merchandiseDetails |-> NoDetails, qrData |-> NoQr, mail |-> "none",
   filter |-> NoFilter, events |-> <<>>,
   event |-> NoEvent, orig |-> NoRegistration,
   reg |-> NoRegistration, res |-> 0]

\* A request that has sent its response: only the outcome is kept.
Responded(q, code) ==
  [IdleReq EXCEPT !.op = q.op, !.pc = "done", !.userId = q.userId,
                  !.rid = q.rid, !.res = code]

\* The ticket codec at rest: nothing to encode.
NoCodec ==
  [stage |-> "none", ticketId |-> <<>>, userId |-> <<>>, eventId |-> <<>>,
   eventName |-> <<>>, userName |-> <<>>, registrationDate |-> 0,
   key |-> 0, iv |-> <<>>, stored |-> [data |-> <<>>, iv |-> <<>>],
   qrPayload |-> [data |-> <<>>, iv |-> <<>>],
   decoded |-> [ok |-> FALSE, values |-> <<>>]]

\* `const query = {}`: the filter object of the public listing, with no
\* key set ("none", NoDate).
EmptyQuery ==
  [statuses |-> {}, eventType |-> "none", eligibility |-> "none",
   startGte |-> NoDate, startLte |-> NoDate,
   organizerId |-> [set |-> FALSE, eq |-> 0]]

\* The events the organizer can have created and published.
PublishedEvents ==
  {NewEvent("normal", a, f, <<>>) : a \in BOOLEAN, f \in 0..MaxPrice}
  \cup {NewEvent("merchandise", a, 0, vs) :
          a \in BOOLEAN,
          vs \in [VariantIds -> [stockQuantity : {InitStock}, price : 0..MaxPrice]]}

Init ==
  /\ event \in PublishedEvents
  /\ registrations = <<>>
  /\ reqs = [r \in Reqs |-> IdleReq]
  /\ uuidCount = 0
  /\ overlaps = 0
  /\ today = 0
  /\ codec = NoCodec
  /\ query = EmptyQuery

\* ------------------------------------------------------ the data layer
\* uuidv4(): a value no earlier call returned.
FreshUuid == uuidCount + 1

\* generateEncryptedQRCode: the stored payload is the encryption of the
\* ticket's identity; it is written here as the ticketId it encrypts.
EncryptedQR(ticketId) == ticketId

\* The unique index on Registration.ticketId: an insert is refused when a
\* stored document has the same value, null (0) included, since the index is
\* not sparse and the handler stores ticketId: null explicitly.
TicketIdTaken(ticketId) ==
  \E i \in DOMAIN registrations : registrations[i].ticketId = ticketId

\* The entries the handler pushed on scanHistory since the load.
Pushed(orig, loc) ==
  SubSeq(loc.scanHistory, Len(orig.scanHistory) + 1, Len(loc.scanHistory))

\* document.save() of a loaded Registration: it sets the paths the handler
\* changed since the load and leaves the others as they are in the store;
\* entries pushed on scanHistory are appended to the stored array ($push).
WriteRegistration(db, orig, loc) ==
  [f \in DOMAIN db |->
     IF f = "scanHistory" THEN db.scanHistory \o Pushed(orig, loc)
     ELSE IF loc[f] # orig[f] THEN loc[f] ELSE db[f]]

\* StockValid without the min: 0 validator of stockQuantity.
StockValidNoMin(orig, loc) == TRUE

\* The validators save() runs on the changed variants: stockQuantity min 0.
StockValid(orig, loc) ==
  \A i \in DOMAIN loc.variants :
     loc.variants[i] # orig.variants[i] => loc.variants[i].stockQuantity >= 0

\* document.save() of a loaded Event: it sets the changed paths only.
WriteEvent(db, orig, loc) ==
  [db EXCEPT
     !.status = IF loc.status # orig.status THEN loc.status ELSE @,
     !.description =
        IF loc.description # orig.description THEN loc.description ELSE @,
     !.registrationDeadline =
        IF loc.registrationDeadline # orig.registrationDeadline
        THEN loc.registrationDeadline ELSE @,
     !.registrationLimit =
        IF loc.registrationLimit # orig.registrationLimit
        THEN loc.registrationLimit ELSE @,
     !.totalAttendance =
        IF loc.totalAttendance # orig.totalAttendance
        THEN loc.totalAttendance ELSE @,
     !.totalRegistrations =
        IF loc.totalRegistrations # orig.totalRegistrations
        THEN loc.totalRegistrations ELSE @,
     !.registrationFee =
        IF loc.registrationFee # orig.registrationFee
        THEN loc.registrationFee ELSE @,
     !.variants =
        IF \/ DOMAIN loc.variants # DOMAIN orig.variants
           \/ \E i \in DOMAIN loc.variants : loc.variants[i].price # orig.variants[i].price
        THEN loc.variants
        ELSE [i \in DOMAIN @ |->
                IF loc.variants[i].stockQuantity # orig.variants[i].stockQuantity
                THEN [@[i] EXCEPT !.stockQuantity = loc.variants[i].stockQuantity]
                ELSE @[i]]]

\* EventValid without the hook.
EventValidNoHook(loc) == TRUE

\* EventSchema.pre("save"): a merchandise event must have a variant.
EventValid(loc) == loc.eventType = "merchandise" => Len(loc.variants) > 0

\* variant.stockQuantity -= quantity || 1, on the variant found by variantId.
DecrementStock(ev, variantId, quantity) ==
  IF variantId \in DOMAIN ev.variants
  THEN [ev EXCEPT !.variants[variantId].stockQuantity = @ - QuantityOrOne(quantity)]
  ELSE ev

\* event.totalRegistrations += 1
CountRegistration(ev) == [ev EXCEPT !.totalRegistrations = @ + 1]

Respond(r, code) == reqs' = [reqs EXCEPT ![r] = Responded(reqs[r], code)]

\* The response of a handler that tried a notification (the confirmation
\* email, the Discord webhook) on its way: what became of the notification
\* is kept with the outcome.
RespondNotified(r, code, delivered) ==
  reqs' = [reqs EXCEPT ![r] =
             [Responded(reqs[r], code)
                EXCEPT !.mail = IF delivered THEN "sent" ELSE "failed"]]

\* NotificationEnds with a failure that is not caught.
NotificationEndsUncaught(delivered) == ~delivered

\* Whether the outcome of a notification ends the handler: the failure is
\* caught and logged where it happens and the handler goes on.
NotificationEnds(delivered) == FALSE

\* A response that has been computed is delivered before anything else
\* happens: delivery touches nothing but the connection.
Delivering == \E r \in Reqs : reqs[r].pc = "done"

\* A request in flight: started and not yet answered.
InFlight(q) == q.pc \notin {"idle", "done"}

\* A request that starts while another one is in flight counts as an overlap;
\* at most MaxOverlaps of them are explored.
Admit ==
  IF \E s \in Reqs : InFlight(reqs[s])
  THEN overlaps < MaxOverlaps /\ overlaps' = overlaps + 1
  ELSE UNCHANGED overlaps

\* Participants are interchangeable until they have a registration or a
\* request in flight; of those that have neither, the first one sends the
\* next request.
Known(u) ==
  \/ \E i \in DOMAIN registrations : registrations[i].userId = u
  \/ \E s \in Reqs : InFlight(reqs[s]) /\ reqs[s].userId = u

Sender(u) == Known(u) \/ \A w \in Users : w < u => Known(w)

\* The request on connection r is at step pc of handler op.
At(r, op, pc) == ~Delivering /\ reqs[r].op = op /\ reqs[r].pc = pc

\* A new request takes the first connection that carries none.
Free(r) ==
  /\ ~Delivering
  /\ reqs[r].pc = "idle"
  /\ \A s \in Reqs : s < r => reqs[s].pc # "idle"

\* The response has been delivered; the connection carries no request.
Finish(r) ==
  /\ reqs[r].pc = "done"
  /\ reqs' = [reqs EXCEPT ![r] = IdleReq]
  /\ UNCHANGED <<event, registrations, uuidCount, overlaps, today, codec, query>>

NewRequest(op, pc, u, rid, v, q) ==
  [IdleReq EXCEPT !.op = op, !.pc = pc, !.userId = u, !.rid = rid,
                  !.variantId = v, !.quantity = q]

\* ------------------------------------------- POST /:id/register (submit)
StartRegister(r, u, v, q) ==
  /\ Free(r)
  /\ reqs' = [reqs EXCEPT ![r] = NewRequest("register", "loadEvent", u, 0, v, q)]
  /\ Admit
  /\ UNCHANGED <<event, registrations, uuidCount, today, codec, query>>

\* registrationLimit undefined (0) never compares as reached.
LimitReached(ev) ==
  ev.registrationLimit # 0 /\ ev.totalRegistrations >= ev.registrationLimit

\* req.user.isIIITian: the first participant is an IIITian, the others are
\* external.
IsIIITian(u) == u = 1

\* Ineligible without the check of an event restricted to external
\* participants.
IneligibleIIITOnly(ev, u) == ev.eligibility = "iiitans" /\ ~IsIIITian(u)

\* The eligibility check of submit.
Ineligible(ev, u) ==
  \/ ev.eligibility = "iiitans" /\ ~IsIIITian(u)
  \/ ev.eligibility = "external" /\ IsIIITian(u)

\* Event.findById and the checks on the loaded event.
RegisterLoadEvent(r) ==
  /\ At(r, "register", "loadEvent")
  /\ IF event.status = "none"
     THEN Respond(r, 404)
     ELSE IF event.status \notin {"published", "ongoing"}
     THEN Respond(r, 400)
     ELSE IF today > event.registrationDeadline
     THEN Respond(r, 400)
     ELSE IF Ineligible(event, reqs[r].userId)
     THEN Respond(r, 403)
     ELSE IF LimitReached(event)
     THEN Respond(r, 400)
     ELSE reqs' = [reqs EXCEPT ![r].event = event, ![r].pc = "findExisting"]
  /\ UNCHANGED <<event, registrations, uuidCount, overlaps, today, codec, query>>

\* IsPaidEvent that forgets the registration fee of a normal event.
IsPaidEventMerchandiseOnly(ev, variantId) ==
  ev.eventType = "merchandise" /\ ev.variants[variantId].price > 0

IsPaidEvent(ev, variantId) ==
  \/ ev.eventType = "merchandise" /\ ev.variants[variantId].price > 0
  \/ ev.eventType = "normal" /\ ev.registrationFee > 0

\* The document submit builds from the loaded event and the selection.
SubmittedRegistration(ev, u, v, q, uuid) ==
  LET paid == IsPaidEvent(ev, v)
      appr == IF ev.requiresApproval THEN "pending" ELSE "not_required"
  IN  NewRegistration(
        u,
        IF ~paid /\ appr = "not_required" THEN uuid ELSE 0,
        IF paid \/ ev.requiresApproval THEN "pending_approval" ELSE "registered",
        IF paid THEN "pending" ELSE "free",
        IF paid THEN "pending" ELSE "not_required",
        appr,
        IF ev.eventType = "merchandise" THEN v ELSE 0,
        IF ev.eventType = "merchandise" THEN q ELSE 0)

\* Registration.findOne({userId, eventId}), the merchandise checks on the
\* loaded event, and the construction of the new document.
RegisterFindExisting(r) ==
  LET q == reqs[r]
      ev == q.event
      doc == SubmittedRegistration(ev, q.userId, q.variantId, q.quantity, FreshUuid)
  IN
  /\ At(r, "register", "findExisting")
  /\ IF \E i \in DOMAIN registrations : registrations[i].userId = q.userId
     THEN Respond(r, 409) /\ UNCHANGED uuidCount
     ELSE IF ev.eventType = "merchandise" /\ q.variantId \notin DOMAIN ev.variants
     THEN Respond(r, 400) /\ UNCHANGED uuidCount
     ELSE IF /\ ev.eventType = "merchandise"
             /\ ev.variants[q.variantId].stockQuantity < QuantityOrOne(q.quantity)
     THEN Respond(r, 400) /\ UNCHANGED uuidCount
     ELSE /\ reqs' = [reqs EXCEPT ![r].reg = doc, ![r].pc = "insert"]
          /\ uuidCount' = IF doc.ticketId # 0 THEN uuidCount + 1 ELSE uuidCount
  /\ UNCHANGED <<event, registrations, overlaps, today, codec, query>>

\* registration.save() of the new document.
RegisterInsert(r) ==
  LET q == reqs[r] IN
  /\ At(r, "register", "insert")
  /\ IF TicketIdTaken(q.reg.ticketId)
     THEN Respond(r, 500) /\ UNCHANGED registrations
     ELSE /\ registrations' = Append(registrations, q.reg)
          /\ IF /\ q.reg.paymentApprovalStatus = "not_required"
                /\ q.reg.registrationApprovalStatus = "not_required"
             THEN reqs' = [reqs EXCEPT ![r].rid = Len(registrations) + 1,
                                       ![r].orig = q.reg, ![r].pc = "saveQr"]
             ELSE reqs' = [reqs EXCEPT ![r] =
                      Responded([q EXCEPT !.rid = Len(registrations) + 1], 201)]
  /\ UNCHANGED <<event, uuidCount, overlaps, today, codec, query>>

\* generateEncryptedQRCode and the second registration.save().
RegisterSaveQr(r) ==
  LET q == reqs[r]
      loc == [q.reg EXCEPT !.qrCodeEncrypted = EncryptedQR(q.reg.ticketId)]
  IN
  /\ At(r, "register", "saveQr")
  /\ registrations' =
        [registrations EXCEPT ![q.rid] = WriteRegistration(@, q.orig, loc)]
  /\ reqs' = [reqs EXCEPT ![r].reg = loc, ![r].orig = loc, ![r].pc = "saveEvent"]
  /\ UNCHANGED <<event, uuidCount, overlaps, today, codec, query>>

\* The inventory commit of submit: what the handler does to its loaded event.
RegisterCommit(ev, variantId, quantity) ==
  IF ev.eventType = "merchandise"
  THEN DecrementStock(CountRegistration(ev), variantId, quantity)
  ELSE CountRegistration(ev)

\* event.save() of submit and the response.
RegisterSaveEvent(r) ==
  LET q == reqs[r]
      loc == RegisterCommit(q.event, q.variantId, q.quantity)
  IN
  /\ At(r, "register", "saveEvent")
  /\ \E delivered \in BOOLEAN :
        IF NotificationEnds(delivered)
        THEN UNCHANGED event /\ RespondNotified(r, 500, delivered)
        ELSE IF StockValid(q.event, loc)
        THEN /\ event' = WriteEvent(event, q.event, loc)
             /\ RespondNotified(r, 201, delivered)
        ELSE UNCHANGED event /\ RespondNotified(r, 500, delivered)
  /\ UNCHANGED <<registrations, uuidCount, overlaps, today, codec, query>>

\* A participant of U submits: a variant and a quantity for a merchandise
\* event, no selection for a normal one.
SubmitRegister(r, U) ==
  \/ \E u \in U, v \in VariantIds, q \in 1..MaxQty :
        /\ event.eventType = "merchandise"
        /\ Sender(u)
        /\ StartRegister(r, u, v, q)
  \/ \E u \in U :
        /\ event.eventType = "normal"
        /\ Sender(u)
        /\ StartRegister(r, u, 0, 0)

RegisterSteps(r) ==
  \/ RegisterLoadEvent(r)
  \/ RegisterFindExisting(r)
  \/ RegisterInsert(r)
  \/ RegisterSaveQr(r)
  \/ RegisterSaveEvent(r)

Register(r) == SubmitRegister(r, Users) \/ RegisterSteps(r)

\* -------------------------------- POST /:id/upload-payment-proof
StartUploadPaymentProof(r, u) ==
  /\ Free(r)
  /\ reqs' = [reqs EXCEPT ![r] = NewRequest("uploadPaymentProof", "loadReg", u, 0, 0, 0)]
  /\ Admit
  /\ UNCHANGED <<event, registrations, uuidCount, today, codec, query>>

\* Registration.findOne({userId, eventId}): the first stored match, 0 if none.
FindByUser(u) ==
  LET found == {i \in DOMAIN registrations : registrations[i].userId = u}
  IN  IF found = {} THEN 0 ELSE CHOOSE i \in found : \A j \in found : i <= j

UploadLoadRegistration(r) ==
  LET q == reqs[r]
      rid == FindByUser(q.userId)
  IN
  /\ At(r, "uploadPaymentProof", "loadReg")
  /\ IF rid = 0
     THEN Respond(r, 404)
     ELSE IF registrations[rid].paymentApprovalStatus # "pending"
     THEN reqs' = [reqs EXCEPT ![r] = Responded([q EXCEPT !.rid = rid], 400)]
     ELSE reqs' = [reqs EXCEPT ![r].rid = rid, ![r].orig = registrations[rid],
                               ![r].pc = "saveReg"]
  /\ UNCHANGED <<event, registrations, uuidCount, overlaps, today, codec, query>>

\* registration.save(): the new file path is always a changed path.
UploadSaveRegistration(r) ==
  LET q == reqs[r] IN
  /\ At(r, "uploadPaymentProof", "saveReg")
  /\ registrations' = [registrations EXCEPT ![q.rid].paymentProofImage = TRUE]
  /\ Respond(r, 200)
  /\ UNCHANGED <<event, uuidCount, overlaps, today, codec, query>>

UploadPaymentProof(r) ==
  \/ \E u \in Users : Sender(u) /\ StartUploadPaymentProof(r, u)
  \/ UploadLoadRegistration(r)
  \/ UploadSaveRegistration(r)

\* ------------------------------ the organizer's four gate operations
StartGateOp(r, op, rid) ==
  /\ Free(r)
  /\ rid \in DOMAIN registrations
  /\ reqs' = [reqs EXCEPT ![r] = NewRequest(op, "loadEvent", 0, rid, 0, 0)]
  /\ Admit
  /\ UNCHANGED <<event, registrations, uuidCount, today, codec, query>>

\* Event.findById of a gate operation.
GateLoadEvent(r) ==
  /\ ~Delivering
  /\ reqs[r].op \in {"approvePayment", "rejectPayment",
                     "approveRegistration", "rejectRegistration"}
  /\ reqs[r].pc = "loadEvent"
  /\ reqs' = [reqs EXCEPT ![r].event = event, ![r].pc = "loadReg"]
  /\ UNCHANGED <<event, registrations, uuidCount, overlaps, today, codec, query>>

\* registration.save() of a gate operation.
GateWriteRegistration(r) ==
  registrations' =
     [registrations EXCEPT ![reqs[r].rid] = WriteRegistration(@, reqs[r].orig, reqs[r].reg)]

\* ------------------- POST /:eventId/approve-payment/:registrationId
\* What approvePayment does to the loaded registration before saving it.
PaymentApproved(reg, uuid) ==
  [reg EXCEPT
     !.paymentApprovalStatus = "approved",
     !.paymentStatus = "completed",
     !.paymentProofImage = FALSE,
     !.status = IF reg.registrationApprovalStatus # "pending" THEN "registered" ELSE @,
     !.ticketId = IF @ = 0 THEN uuid ELSE @,
     !.qrCodeEncrypted = EncryptedQR(IF reg.ticketId = 0 THEN uuid ELSE reg.ticketId)]

ApprovePaymentLoadRegistration(r) ==
  LET q == reqs[r]
      reg == registrations[q.rid]
  IN
  /\ At(r, "approvePayment", "loadReg")
  /\ IF reg.paymentApprovalStatus # "pending" \/ ~reg.paymentProofImage
     THEN Respond(r, 400) /\ UNCHANGED uuidCount
     ELSE /\ reqs' = [reqs EXCEPT ![r].orig = reg,
                                  ![r].reg = PaymentApproved(reg, FreshUuid),
                                  ![r].pc = "saveReg"]
          /\ uuidCount' = IF reg.ticketId = 0 THEN uuidCount + 1 ELSE uuidCount
  /\ UNCHANGED <<event, registrations, overlaps, today, codec, query>>

ApprovePaymentSaveRegistration(r) ==
  /\ At(r, "approvePayment", "saveReg")
  /\ GateWriteRegistration(r)
  /\ reqs' = [reqs EXCEPT ![r].pc = "saveEvent"]
  /\ UNCHANGED <<event, uuidCount, overlaps, today, codec, query>>

\* The inventory commit of approvePayment on its loaded event.
PaymentCommit(ev, reg) ==
  CountRegistration(
     IF reg.variantId # 0 THEN DecrementStock(ev, reg.variantId, reg.quantity) ELSE ev)

ApprovePaymentSaveEvent(r) ==
  LET q == reqs[r]
      loc == PaymentCommit(q.event, q.reg)
  IN
  /\ At(r, "approvePayment", "saveEvent")
  /\ \E delivered \in BOOLEAN :
        IF NotificationEnds(delivered)
        THEN UNCHANGED event /\ RespondNotified(r, 500, delivered)
        ELSE IF StockValid(q.event, loc)
        THEN /\ event' = WriteEvent(event, q.event, loc)
             /\ RespondNotified(r, 200, delivered)
        ELSE UNCHANGED event /\ RespondNotified(r, 500, delivered)
  /\ UNCHANGED <<registrations, uuidCount, overlaps, today, codec, query>>

ApprovePayment(r) ==
  \/ \E rid \in DOMAIN registrations : StartGateOp(r, "approvePayment", rid)
  \/ ApprovePaymentLoadRegistration(r)
  \/ ApprovePaymentSaveRegistration(r)
  \/ ApprovePaymentSaveEvent(r)

\* -------------------- POST /:eventId/reject-payment/:registrationId
PaymentRejected(reg) ==
  [reg EXCEPT !.paymentApprovalStatus = "rejected", !.paymentProofImage = FALSE]

\* RejectPaymentLoadRegistration refusing only a payment already rejected.
RejectPaymentLoadRegistrationLate(r) ==
  LET reg == registrations[reqs[r].rid] IN
  /\ At(r, "rejectPayment", "loadReg")
  /\ IF reg.paymentApprovalStatus = "rejected"
     THEN Respond(r, 400)
     ELSE reqs' = [reqs EXCEPT ![r].orig = reg, ![r].reg = PaymentRejected(reg),
                               ![r].pc = "saveReg"]
  /\ UNCHANGED <<event, registrations, uuidCount, overlaps, today, codec, query>>

RejectPaymentLoadRegistration(r) ==
  LET reg == registrations[reqs[r].rid] IN
  /\ At(r, "rejectPayment", "loadReg")
  /\ IF reg.paymentApprovalStatus # "pending"
     THEN Respond(r, 400)
     ELSE reqs' = [reqs EXCEPT ![r].orig = reg, ![r].reg = PaymentRejected(reg),
                               ![r].pc = "saveReg"]
  /\ UNCHANGED <<event, registrations, uuidCount, overlaps, today, codec, query>>

RejectPaymentSaveRegistration(r) ==
  /\ At(r, "rejectPayment", "saveReg")
  /\ GateWriteRegistration(r)
  /\ Respond(r, 200)
  /\ UNCHANGED <<event, uuidCount, overlaps, today, codec, query>>

RejectPayment(r) ==
  \/ \E rid \in DOMAIN registrations : StartGateOp(r, "rejectPayment", rid)
  \/ RejectPaymentLoadRegistration(r)
  \/ RejectPaymentSaveRegistration(r)

\* --------------- POST /:eventId/approve-registration/:registrationId
\* IssuesQR taking only an approved payment, not a payment that is not
\* required.
IssuesQROnlyPaid(reg) == reg.paymentApprovalStatus = "approved" /\ reg.qrCodeEncrypted = 0

\* The branch of approveRegistration that issues the QR code.
IssuesQR(reg) == reg.paymentApprovalStatus # "pending" /\ reg.qrCodeEncrypted = 0

\* What approveRegistration does to the loaded registration before saving it.
RegistrationApproved(reg, uuid) ==
  [reg EXCEPT
     !.registrationApprovalStatus = "approved",
     !.status = "registered",
     !.ticketId = IF @ = 0 THEN uuid ELSE @,
     !.qrCodeEncrypted =
        IF IssuesQR(reg)
        THEN EncryptedQR(IF reg.ticketId = 0 THEN uuid ELSE reg.ticketId)
        ELSE @]

ApproveRegistrationLoadRegistration(r) ==
  LET reg == registrations[reqs[r].rid] IN
  /\ At(r, "approveRegistration", "loadReg")
  /\ IF reg.registrationApprovalStatus # "pending"
     THEN Respond(r, 400) /\ UNCHANGED uuidCount
     ELSE /\ reqs' = [reqs EXCEPT ![r].orig = reg,
                                  ![r].reg = RegistrationApproved(reg, FreshUuid),
                                  ![r].pc = "saveReg"]
          /\ uuidCount' = IF reg.ticketId = 0 THEN uuidCount + 1 ELSE uuidCount
  /\ UNCHANGED <<event, registrations, overlaps, today, codec, query>>

\* Whether approveRegistration goes on to update the event's counters.
RegistrationCommits(reg) ==
  IssuesQR(reg) /\ reg.paymentApprovalStatus = "not_required"

ApproveRegistrationSaveRegistration(r) ==
  /\ At(r, "approveRegistration", "saveReg")
  /\ GateWriteRegistration(r)
  /\ IF RegistrationCommits(reqs[r].orig)
     THEN reqs' = [reqs EXCEPT ![r].pc = "saveEvent"]
     ELSE IF IssuesQR(reqs[r].orig)
     THEN \E delivered \in BOOLEAN :
             RespondNotified(r, IF NotificationEnds(delivered) THEN 500 ELSE 200,
                             delivered)
     ELSE Respond(r, 200)
  /\ UNCHANGED <<event, uuidCount, overlaps, today, codec, query>>

\* The inventory commit of approveRegistration on its loaded event.
RegistrationCommit(ev, reg) == CountRegistration(ev)

ApproveRegistrationSaveEvent(r) ==
  LET q == reqs[r]
      loc == RegistrationCommit(q.event, q.reg)
  IN
  /\ At(r, "approveRegistration", "saveEvent")
  /\ \E delivered \in BOOLEAN :
        IF NotificationEnds(delivered)
        THEN UNCHANGED event /\ RespondNotified(r, 500, delivered)
        ELSE IF StockValid(q.event, loc)
        THEN /\ event' = WriteEvent(event, q.event, loc)
             /\ RespondNotified(r, 200, delivered)
        ELSE UNCHANGED event /\ RespondNotified(r, 500, delivered)
  /\ UNCHANGED <<registrations, uuidCount, overlaps, today, codec, query>>

ApproveRegistration(r) ==
  \/ \E rid \in DOMAIN registrations : StartGateOp(r, "approveRegistration", rid)
  \/ ApproveRegistrationLoadRegistration(r)
  \/ ApproveRegistrationSaveRegistration(r)
  \/ ApproveRegistrationSaveEvent(r)

\* ---------------- POST /:eventId/reject-registration/:registrationId
RegistrationRejected(reg) ==
  [reg EXCEPT !.registrationApprovalStatus = "rejected", !.status = "rejected"]

RejectRegistrationLoadRegistration(r) ==
  LET reg == registrations[reqs[r].rid] IN
  /\ At(r, "rejectRegistration", "loadReg")
  /\ IF reg.registrationApprovalStatus # "pending"
     THEN Respond(r, 400)
     ELSE reqs' = [reqs EXCEPT ![r].orig = reg, ![r].reg = RegistrationRejected(reg),
                               ![r].pc = "saveReg"]
  /\ UNCHANGED <<event, registrations, uuidCount, overlaps, today, codec, query>>

RejectRegistrationSaveRegistration(r) ==
  /\ At(r, "rejectRegistration", "saveReg")
  /\ GateWriteRegistration(r)
  /\ Respond(r, 200)
  /\ UNCHANGED <<event, uuidCount, overlaps, today, codec, query>>

RejectRegistration(r) ==
  \/ \E rid \in DOMAIN registrations : StartGateOp(r, "rejectRegistration", rid)
  \/ RejectRegistrationLoadRegistration(r)
  \/ RejectRegistrationSaveRegistration(r)

\* ------------------------------------------- PATCH /:id (event status)
EventStatuses == {"draft", "published", "ongoing", "completed"}

\* Request bodies: a field is 0 ("none", NoDate) when the body lacks it. The
\* deadline and the limit are below or above the values of NewEvent.
PatchBodies ==
  [status : EventStatuses \cup {"none"},
   description : 0..1,
   registrationDeadline : {NoDate, 0, MaxDay + 1},
   registrationLimit : {0, 1, RegLimit + 1},
   registrationFee : {NoFee},
   merchandiseDetails : {NoDetails}]

\* The variant lists a body can carry: none, or variants in stock.
VariantLists ==
  {<<>>} \cup [VariantIds -> [stockQuantity : {InitStock}, price : 0..MaxPrice]]

\* Bodies that edit the fee, the variants or the status.
DraftBodies ==
  [status : {"none", "published", "completed"},
   description : {0},
   registrationDeadline : {NoDate},
   registrationLimit : {0},
   registrationFee : {NoFee} \cup (0..MaxPrice),
   merchandiseDetails :
      {NoDetails} \cup {[given |-> TRUE, variants |-> vs] : vs \in VariantLists}]

\* Bodies that carry a status and nothing else.
StatusBodies ==
  {b \in PatchBodies : /\ b.status # "none" /\ b.description = 0
                       /\ b.registrationDeadline = NoDate
                       /\ b.registrationLimit = 0}

StartPatchEvent(r, body) ==
  /\ Free(r)
  /\ reqs' = [reqs EXCEPT ![r] =
                [NewRequest("patchEvent", "loadEvent", 0, 0, 0, 0)
                   EXCEPT !.status = body.status,
                          !.description = body.description,
                          !.registrationDeadline = body.registrationDeadline,
                          !.registrationLimit = body.registrationLimit,
                          !.registrationFee = body.registrationFee,
                          !.merchandiseDetails = body.merchandiseDetails]]
  /\ Admit
  /\ UNCHANGED <<event, registrations, uuidCount, today, codec, query>>

\* The status a request with body {status} gives the loaded event: any status
\* while it is a draft, ongoing or completed once published, completed after.
PatchedStatus(ev, status) ==
  IF ev.status = "draft" THEN (IF status # "none" THEN status ELSE ev.status)
  ELSE IF ev.status = "published" /\ status \in {"ongoing", "completed"} THEN status
  ELSE IF ev.status \in {"ongoing", "completed"} /\ status = "completed" THEN status
  ELSE ev.status

\* registrationLimit >= event.registrationLimit, false when the event has
\* no limit (undefined, written 0).
LimitNotReduced(ev, limit) == ev.registrationLimit # 0 /\ limit >= ev.registrationLimit

\* PatchRefuses accepting any deadline and limit on a published event.
PatchRefusesStatusOnly(ev, q) ==
  ev.status \in {"ongoing", "completed"} /\ q.status # "completed"

\* The requests the editing rules refuse with 400: on a published event a
\* deadline that is not later or a limit that is lower, on an ongoing or
\* completed event anything but status completed.
PatchRefuses(ev, q) ==
  \/ /\ ev.status = "published"
     /\ \/ /\ q.registrationDeadline # NoDate
           /\ ~(q.registrationDeadline > ev.registrationDeadline)
        \/ /\ q.registrationLimit # 0
           /\ ~LimitNotReduced(ev, q.registrationLimit)
  \/ /\ ev.status \in {"ongoing", "completed"}
     /\ q.status # "completed"

\* eventType === "merchandise" ? 0 : registrationFee
ForcedFee(eventType, fee) == IF eventType = "merchandise" THEN 0 ELSE fee

\* The loaded event after the edits of an accepted request.
PatchedEvent(ev, q) ==
  [ev EXCEPT
     !.status = PatchedStatus(ev, q.status),
     !.description =
        IF ev.status \in {"draft", "published"} /\ q.description # 0
        THEN q.description ELSE @,
     !.registrationDeadline =
        IF ev.status \in {"draft", "published"} /\ q.registrationDeadline # NoDate
        THEN q.registrationDeadline ELSE @,
     !.registrationLimit =
        IF ev.status \in {"draft", "published"} /\ q.registrationLimit # 0
        THEN q.registrationLimit ELSE @,
     !.registrationFee =
        IF ev.status = "draft" /\ q.registrationFee # NoFee
        THEN ForcedFee(ev.eventType, q.registrationFee) ELSE @,
     !.variants =
        IF ev.status = "draft" /\ q.merchandiseDetails.given
        THEN q.merchandiseDetails.variants ELSE @]

\* Whether the request goes through Registration.updateMany before the save.
PatchMarksAbsent(ev, status) ==
  ev.status \in {"published", "ongoing", "completed"} /\ status = "completed"

\* Event.findById and the editing rules of the loaded event's status.
PatchLoadEvent(r) ==
  LET q == reqs[r] IN
  /\ At(r, "patchEvent", "loadEvent")
  /\ IF event.status = "none" THEN Respond(r, 404)
     ELSE IF PatchRefuses(event, q) THEN Respond(r, 400)
     ELSE reqs' = [reqs EXCEPT
                     ![r].event = event,
                     ![r].pc = IF PatchMarksAbsent(event, q.status)
                               THEN "updateMany" ELSE "saveEvent"]
  /\ UNCHANGED <<event, registrations, uuidCount, overlaps, today, codec, query>>

\* The number of scanHistory entries in the store.
HistoryCount ==
  Cardinality({<<i, k>> \in (DOMAIN registrations) \X (1..MaxHistory) :
                 k <= Len(registrations[i].scanHistory)})

\* new Date(): a logical time that grows with every audit entry written.
Now == 1 + HistoryCount

\* Registration.updateMany({attendanceStatus: "not_checked"}, {"absent"}).
PatchUpdateMany(r) ==
  /\ At(r, "patchEvent", "updateMany")
  /\ registrations' =
       [i \in DOMAIN registrations |->
          IF registrations[i].attendanceStatus = "not_checked"
          THEN [registrations[i] EXCEPT !.attendanceStatus = "absent",
                                        !.attendanceTimestamp = Now]
          ELSE registrations[i]]
  /\ reqs' = [reqs EXCEPT ![r].pc = "saveEvent"]
  /\ UNCHANGED <<event, uuidCount, overlaps, today, codec, query>>

\* sendDiscordNotification when a draft is published (nothing is sent when
\* the club has no webhook), then event.save() and the response.
PatchSaveEvent(r) ==
  LET q == reqs[r]
      loc == PatchedEvent(q.event, q)
  IN
  /\ At(r, "patchEvent", "saveEvent")
  /\ IF q.event.status = "draft" /\ q.status = "published"
     THEN \/ IF EventValid(loc)
             THEN event' = WriteEvent(event, q.event, loc) /\ Respond(r, 200)
             ELSE UNCHANGED event /\ Respond(r, 500)
          \/ \E delivered \in BOOLEAN :
                IF NotificationEnds(delivered) \/ ~EventValid(loc)
                THEN UNCHANGED event /\ RespondNotified(r, 500, delivered)
                ELSE /\ event' = WriteEvent(event, q.event, loc)
                     /\ RespondNotified(r, 200, delivered)
     ELSE IF EventValid(loc)
     THEN event' = WriteEvent(event, q.event, loc) /\ Respond(r, 200)
     ELSE UNCHANGED event /\ Respond(r, 500)
  /\ UNCHANGED <<registrations, uuidCount, overlaps, today, codec, query>>

\* A PATCH request with a body of B arrives.
SubmitPatchEvent(r, B) == \E body \in B : StartPatchEvent(r, body)

PatchSteps(r) ==
  \/ PatchLoadEvent(r)
  \/ PatchUpdateMany(r)
  \/ PatchSaveEvent(r)

PatchEvent(r) == SubmitPatchEvent(r, StatusBodies) \/ PatchSteps(r)

\* ------------------------------------------------------- POST /
\* Bodies of a creation: the type, a fee, a limit (0 when absent) and
\* merchandiseDetails.
CreateBodies ==
  [eventType : {"normal", "merchandise"},
   registrationFee : 0..MaxPrice,
   registrationLimit : {0, RegLimit},
   merchandiseDetails :
      {NoDetails} \cup {[given |-> TRUE, variants |-> vs] : vs \in VariantLists}]

StartCreateEvent(r, body) ==
  /\ Free(r)
  /\ event.status = "none"
  /\ reqs' = [reqs EXCEPT ![r] =
                [NewRequest("createEvent", "saveEvent", 0, 0, 0, 0)
                   EXCEPT !.eventType = body.eventType,
                          !.registrationFee = body.registrationFee,
                          !.registrationLimit = body.registrationLimit,
                          !.merchandiseDetails = body.merchandiseDetails]]
  /\ Admit
  /\ UNCHANGED <<event, registrations, uuidCount, today, codec, query>>

\* The bodies the handler refuses with 400 before it builds the document.
CreateRefuses(q) ==
  \/ q.eventType = "normal" /\ q.registrationLimit = 0
  \/ q.eventType = "merchandise" /\ Len(q.merchandiseDetails.variants) = 0

\* new Event({...}): the fee of a merchandise event is 0, merchandiseDetails
\* is kept for a merchandise event only, the status is draft.
CreatedEvent(q) ==
  [NewEvent(q.eventType, FALSE, q.registrationFee,
            q.merchandiseDetails.variants)
     EXCEPT !.status = "draft",
            !.registrationFee = ForcedFee(q.eventType, q.registrationFee),
            !.registrationLimit = q.registrationLimit]

\* The validation of the body, new Event, event.save() and the response.
CreateSaveEvent(r) ==
  LET q == reqs[r] IN
  /\ At(r, "createEvent", "saveEvent")
  /\ IF CreateRefuses(q) THEN UNCHANGED event /\ Respond(r, 400)
     ELSE IF ~EventValid(CreatedEvent(q)) THEN UNCHANGED event /\ Respond(r, 500)
     ELSE event' = CreatedEvent(q) /\ Respond(r, 201)
  /\ UNCHANGED <<registrations, uuidCount, overlaps, today, codec, query>>

CreateEvent(r) ==
  \/ \E body \in CreateBodies : StartCreateEvent(r, body)
  \/ CreateSaveEvent(r)

\* ------------------------------------------------ DELETE /:id
StartDeleteEvent(r) ==
  /\ Free(r)
  /\ reqs' = [reqs EXCEPT ![r] = NewRequest("deleteEvent", "loadEvent", 0, 0, 0, 0)]
  /\ Admit
  /\ UNCHANGED <<event, registrations, uuidCount, today, codec, query>>

\* DeleteLoadEvent without the draft check.
DeleteLoadEventAnyStatus(r) ==
  /\ At(r, "deleteEvent", "loadEvent")
  /\ IF event.status = "none" THEN Respond(r, 404)
     ELSE reqs' = [reqs EXCEPT ![r].pc = "deleteMany"]
  /\ UNCHANGED <<event, registrations, uuidCount, overlaps, today, codec, query>>

\* Event.findById: only a draft goes on to be deleted.
DeleteLoadEvent(r) ==
  /\ At(r, "deleteEvent", "loadEvent")
  /\ IF event.status = "none" THEN Respond(r, 404)
     ELSE IF event.status # "draft" THEN Respond(r, 400)
     ELSE reqs' = [reqs EXCEPT ![r].pc = "deleteMany"]
  /\ UNCHANGED <<event, registrations, uuidCount, overlaps, today, codec, query>>

\* Registration.deleteMany({eventId}).
DeleteRegistrations(r) ==
  /\ At(r, "deleteEvent", "deleteMany")
  /\ registrations' = <<>>
  /\ reqs' = [reqs EXCEPT ![r].pc = "deleteEvent"]
  /\ UNCHANGED <<event, uuidCount, overlaps, today, codec, query>>

\* Event.findByIdAndDelete.
DeleteEventDocument(r) ==
  /\ At(r, "deleteEvent", "deleteEvent")
  /\ event' = NoEvent
  /\ Respond(r, 200)
  /\ UNCHANGED <<registrations, uuidCount, overlaps, today, codec, query>>

DeleteEvent(r) ==
  \/ StartDeleteEvent(r)
  \/ DeleteLoadEvent(r)
  \/ DeleteRegistrations(r)
  \/ DeleteEventDocument(r)

\* --------------------------------------- POST /:eventId/scan-ticket
\* Attendance requests append to scanHistory; MaxHistory of them are explored.
AttendanceOps == {"scanTicket", "manualAttendance"}

HistoryBudget ==
  HistoryCount
  + Cardinality({s \in Reqs : InFlight(reqs[s]) /\ reqs[s].op \in AttendanceOps})
  < MaxHistory

StartScanTicket(r, ticketId) ==
  /\ Free(r)
  /\ HistoryBudget
  /\ reqs' = [reqs EXCEPT ![r] =
                [NewRequest("scanTicket", "loadEvent", 0, 0, 0, 0)
                   EXCEPT !.ticketId = ticketId]]
  /\ Admit
  /\ UNCHANGED <<event, registrations, uuidCount, today, codec, query>>

\* The qrData a scanner can send for ticket id t, next to no qrData.
QrPayloads(t) ==
  {NoQr, [NoQr EXCEPT !.shape = "text", !.text = t]}
  \cup {[NoQr EXCEPT !.shape = "object", !.sealed = sl,
                     !.inner = IF sl = "good" THEN t ELSE 0,
                     !.ticketId = b, !.ticket = l] :
          sl \in {"none", "good", "corrupt"}, b \in {0, t}, l \in {0, t}}

StartScanQr(r, ticketId, qrData) ==
  /\ Free(r)
  /\ HistoryBudget
  /\ reqs' = [reqs EXCEPT ![r] =
                [NewRequest("scanTicket", "loadEvent", 0, 0, 0, 0)
                   EXCEPT !.ticketId = ticketId, !.qrData = qrData]]
  /\ Admit
  /\ UNCHANGED <<event, registrations, uuidCount, today, codec, query>>

\* Whether reading the qrData throws: the pair data and iv is there and
\* decryptQRData or JSON.parse of its result fails.
QrThrows(qr) == qr.shape = "object" /\ qr.sealed = "corrupt"

\* decryptedTicketId: the text itself, or of an object the ticketId of the
\* decrypted pair, else its ticketId field, else its ticket.id field.
DecryptedTicketId(qr) ==
  IF qr.shape = "text" THEN qr.text
  ELSE IF qr.shape = "object"
  THEN IF qr.sealed # "none" THEN qr.inner
       ELSE IF qr.ticketId # 0 THEN qr.ticketId
       ELSE qr.ticket
  ELSE 0

\* normalizeTicketId(ticketId) || normalizeTicketId(decryptedTicketId)
SearchTicketId(q) ==
  IF q.ticketId # 0 THEN q.ticketId ELSE DecryptedTicketId(q.qrData)

\* The refusal of a scan, with `currentStatus: event.status` in its body.
RespondStatus(r, code, status) ==
  reqs' = [reqs EXCEPT ![r] = [Responded(reqs[r], code) EXCEPT !.status = status]]

\* ScanLoadEvent that also lets a published event through.
ScanLoadEventOpen(r) ==
  /\ At(r, "scanTicket", "loadEvent")
  /\ IF event.status \notin {"ongoing", "published"}
     THEN RespondStatus(r, 400, event.status)
     ELSE IF QrThrows(reqs[r].qrData) \/ SearchTicketId(reqs[r]) = 0
     THEN Respond(r, 400)
     ELSE reqs' = [reqs EXCEPT ![r].event = event,
                               ![r].ticketId = SearchTicketId(reqs[r]),
                               ![r].pc = "findTicket"]
  /\ UNCHANGED <<event, registrations, uuidCount, overlaps, today, codec, query>>

\* Event.findById, the check that the event is ongoing, and the ticket id
\* to search for.
ScanLoadEvent(r) ==
  /\ At(r, "scanTicket", "loadEvent")
  /\ IF event.status # "ongoing"
     THEN RespondStatus(r, 400, event.status)
     ELSE IF QrThrows(reqs[r].qrData) \/ SearchTicketId(reqs[r]) = 0
     THEN Respond(r, 400)
     ELSE reqs' = [reqs EXCEPT ![r].event = event,
                               ![r].ticketId = SearchTicketId(reqs[r]),
                               ![r].pc = "findTicket"]
  /\ UNCHANGED <<event, registrations, uuidCount, overlaps, today, codec, query>>

\* The checks of the scan on the registration found.
ScanRefuses(reg) ==
  \/ reg.status \notin {"registered", "attended"}
  \/ reg.registrationApprovalStatus \in {"pending", "rejected"}
  \/ reg.paymentApprovalStatus \in {"pending", "rejected"}

\* DuplicateLogged that also stamps the attendance again.
DuplicateRestamped(reg) ==
  [reg EXCEPT !.scanHistory = Append(@, "duplicate_rejected"),
              !.attendanceTimestamp = @ + 1]

\* DuplicateLogged that leaves no trace of the rejected scan.
DuplicateSilent(reg) == reg

DuplicateLogged(reg) ==
  [reg EXCEPT !.scanHistory = Append(@, "duplicate_rejected")]

MarkedPresent(reg, now) ==
  [reg EXCEPT !.attendanceStatus = "present", !.attendanceTimestamp = now,
              !.status = "attended", !.scanHistory = Append(@, "scanned")]

\* Registration.findOne({ticketId, eventId}), the checks, and the change of
\* the loaded document.
ScanFindTicket(r) ==
  LET q == reqs[r]
      found == {i \in DOMAIN registrations : registrations[i].ticketId = q.ticketId}
  IN
  /\ At(r, "scanTicket", "findTicket")
  /\ IF found = {}
     THEN Respond(r, 404)
     ELSE LET rid == CHOOSE i \in found : TRUE
              reg == registrations[rid]
          IN  IF ScanRefuses(reg)
              THEN Respond(r, 400)
              ELSE IF reg.attendanceStatus = "present"
              THEN reqs' = [reqs EXCEPT ![r].rid = rid, ![r].orig = reg,
                                        ![r].reg = DuplicateLogged(reg),
                                        ![r].pc = "saveDuplicate"]
              ELSE reqs' = [reqs EXCEPT ![r].rid = rid, ![r].orig = reg,
                                        ![r].reg = MarkedPresent(reg, Now),
                                        ![r].pc = "saveReg"]
  /\ UNCHANGED <<event, registrations, uuidCount, overlaps, today, codec, query>>

ScanSaveDuplicate(r) ==
  /\ At(r, "scanTicket", "saveDuplicate")
  /\ GateWriteRegistration(r)
  /\ Respond(r, 409)
  /\ UNCHANGED <<event, uuidCount, overlaps, today, codec, query>>

ScanSaveRegistration(r) ==
  /\ At(r, "scanTicket", "saveReg")
  /\ GateWriteRegistration(r)
  /\ reqs' = [reqs EXCEPT ![r].pc = "saveEvent"]
  /\ UNCHANGED <<event, uuidCount, overlaps, today, codec, query>>

\* event.totalAttendance += 1; event.save()
ScanSaveEvent(r) ==
  LET q == reqs[r] IN
  /\ At(r, "scanTicket", "saveEvent")
  /\ event' = WriteEvent(event, q.event,
                         [q.event EXCEPT !.totalAttendance = @ + 1])
  /\ Respond(r, 200)
  /\ UNCHANGED <<registrations, uuidCount, overlaps, today, codec, query>>

\* The ticket ids a scanner can present: the issued ones and one that is not.
ScanTicket(r) ==
  \/ \E ticketId \in 1..(uuidCount + 1) : StartScanTicket(r, ticketId)
  \/ ScanLoadEvent(r)
  \/ ScanFindTicket(r)
  \/ ScanSaveDuplicate(r)
  \/ ScanSaveRegistration(r)
  \/ ScanSaveEvent(r)

\* A scan of a body with qrData, with or without a ticketId next to it.
ScanQr(r) ==
  \/ \E t \in 1..(uuidCount + 1) :
        \E ticketId \in {0, t}, qrData \in QrPayloads(t) :
           StartScanQr(r, ticketId, qrData)
  \/ ScanLoadEvent(r)
  \/ ScanFindTicket(r)
  \/ ScanSaveDuplicate(r)
  \/ ScanSaveRegistration(r)
  \/ ScanSaveEvent(r)

\* ------------------- POST /:eventId/manual-attendance/:registrationId
\* The least length of the reason of a manual override.
MinReason == 5

StartManualAttendance(r, rid, status, reasonLength) ==
  /\ Free(r)
  /\ HistoryBudget
  /\ rid \in DOMAIN registrations
  /\ reqs' = [reqs EXCEPT ![r] =
                [NewRequest("manualAttendance", "loadEvent", 0, rid, 0, 0)
                   EXCEPT !.status = status, !.reasonLength = reasonLength]]
  /\ Admit
  /\ UNCHANGED <<event, registrations, uuidCount, today, codec, query>>

\* The check of the reason, and Event.findById.
ManualLoadEvent(r) ==
  /\ At(r, "manualAttendance", "loadEvent")
  /\ IF reqs[r].reasonLength < MinReason
     THEN Respond(r, 400)
     ELSE reqs' = [reqs EXCEPT ![r].event = event, ![r].pc = "loadReg"]
  /\ UNCHANGED <<event, registrations, uuidCount, overlaps, today, codec, query>>

ManualOverride(reg, status, now) ==
  [reg EXCEPT !.attendanceStatus = status, !.attendanceTimestamp = now,
              !.manualOverride = TRUE,
              !.status = IF status = "present" THEN "attended" ELSE "registered",
              !.scanHistory =
                 Append(@, IF status = "present" THEN "manual_present"
                                                 ELSE "manual_absent")]

\* Registration.findById and the override of the loaded document.
ManualLoadRegistration(r) ==
  LET q == reqs[r]
      reg == registrations[q.rid]
  IN
  /\ At(r, "manualAttendance", "loadReg")
  /\ reqs' = [reqs EXCEPT ![r].orig = reg,
                          ![r].reg = ManualOverride(reg, q.status, Now),
                          ![r].pc = "saveReg"]
  /\ UNCHANGED <<event, registrations, uuidCount, overlaps, today, codec, query>>

ManualSaveRegistration(r) ==
  /\ At(r, "manualAttendance", "saveReg")
  /\ GateWriteRegistration(r)
  /\ reqs' = [reqs EXCEPT ![r].pc = "saveEvent"]
  /\ UNCHANGED <<event, uuidCount, overlaps, today, codec, query>>

\* ManualCount counting every override to present.
ManualCountEveryPresent(ev, previousStatus, status) ==
  IF status = "present"
  THEN [ev EXCEPT !.totalAttendance = @ + 1]
  ELSE IF previousStatus = "present" /\ status = "absent"
  THEN [ev EXCEPT !.totalAttendance = IF @ - 1 > 0 THEN @ - 1 ELSE 0]
  ELSE ev

\* ManualCount that never takes an attendance back.
ManualCountNoDecrement(ev, previousStatus, status) ==
  IF previousStatus # "present" /\ status = "present"
  THEN [ev EXCEPT !.totalAttendance = @ + 1]
  ELSE ev

\* The attendance counter after an override from previousStatus to status.
ManualCount(ev, previousStatus, status) ==
  IF previousStatus # "present" /\ status = "present"
  THEN [ev EXCEPT !.totalAttendance = @ + 1]
  ELSE IF previousStatus = "present" /\ status = "absent"
  THEN [ev EXCEPT !.totalAttendance = IF @ - 1 > 0 THEN @ - 1 ELSE 0]
  ELSE ev

ManualSaveEvent(r) ==
  LET q == reqs[r] IN
  /\ At(r, "manualAttendance", "saveEvent")
  /\ event' = WriteEvent(event, q.event,
                         ManualCount(q.event, q.orig.attendanceStatus, q.status))
  /\ Respond(r, 200)
  /\ UNCHANGED <<registrations, uuidCount, overlaps, today, codec, query>>

ManualAttendance(r) ==
  \/ \E rid \in DOMAIN registrations, status \in {"present", "absent"},
        reasonLength \in {0, MinReason - 1, MinReason} :
        StartManualAttendance(r, rid, status, reasonLength)
  \/ ManualLoadEvent(r)
  \/ ManualLoadRegistration(r)
  \/ ManualSaveRegistration(r)
  \/ ManualSaveEvent(r)

\* ------------------------- GET /:eventId/ticket/:registrationId/qr
\* The organizer of the event, as the user of a request.
Organizer == 0

StartTicketQR(r, u, rid) ==
  /\ Free(r)
  /\ reqs' = [reqs EXCEPT ![r] = NewRequest("ticketQR", "loadReg", u, rid, 0, 0)]
  /\ Admit
  /\ UNCHANGED <<event, registrations, uuidCount, today, codec, query>>

\* Registration.findById.
TicketQRLoadRegistration(r) ==
  LET q == reqs[r] IN
  /\ At(r, "ticketQR", "loadReg")
  /\ IF q.rid \notin DOMAIN registrations
     THEN Respond(r, 404)
     ELSE reqs' = [reqs EXCEPT ![r].reg = registrations[q.rid], ![r].pc = "loadEvent"]
  /\ UNCHANGED <<event, registrations, uuidCount, overlaps, today, codec, query>>

\* The registrations the handler refuses with 400.
TicketQRRefuses(reg) == reg.paymentApprovalStatus \in {"pending", "rejected"}

\* Event.findById, the owner-or-organizer check, the payment check and the
\* response with the QR of registration.ticketId.
TicketQRLoadEvent(r) ==
  LET q == reqs[r] IN
  /\ At(r, "ticketQR", "loadEvent")
  /\ IF q.userId # q.reg.userId /\ ~(event.status # "none" /\ q.userId = Organizer)
     THEN Respond(r, 403)
     ELSE IF TicketQRRefuses(q.reg)
     THEN Respond(r, 400)
     ELSE Respond(r, 200)
  /\ UNCHANGED <<event, registrations, uuidCount, overlaps, today, codec, query>>

TicketQR(r) ==
  \/ \E u \in Users \cup {Organizer}, rid \in 1..(Len(registrations) + 1) :
        StartTicketQR(r, u, rid)
  \/ TicketQRLoadRegistration(r)
  \/ TicketQRLoadEvent(r)

\* ------------------------------------------------------- GET / (listing)
\* The query strings of the listing: a status list that names completed or
\* only a status the handler does not know, a type, an eligibility, a start
\* and an end date, an organizer and a search term, each of them or not.
ListFilters ==
  [search : {0, 1}, type : {"none", "merchandise"},
   eligibility : {"none", "iiitans"}, startDate : {NoDate, MaxDay + 1},
   endDate : {NoDate, 0}, organizerId : {0, Organizer + 2},
   status : {{}, {"completed"}, {"draft"}}]

\* statusQueries: the statuses of the list the handler has a condition for,
\* the list being published and ongoing when the request carries none.
StatusQueries(status) ==
  (IF status = {} THEN {"published", "ongoing"} ELSE status)
     \cap {"published", "ongoing", "completed"}

\* The module-level query object after the handler has put the parameters
\* of the request on it, up to the await of Club.find.
BuiltQuery(base, f) ==
  [base EXCEPT
     !.statuses = IF StatusQueries(f.status) # {} THEN StatusQueries(f.status) ELSE @,
     !.eventType = IF f.type # "none" THEN f.type ELSE @,
     !.eligibility = IF f.eligibility # "none" THEN f.eligibility ELSE @,
     !.startGte = IF f.startDate # NoDate THEN f.startDate ELSE @,
     !.startLte = IF f.endDate # NoDate THEN f.endDate ELSE @]

\* query.organizerId = {$eq: organizerId, $nin: disabledClubIds}, or the
\* $nin alone.
WithOrganizer(base, f) ==
  [base EXCEPT !.organizerId = [set |-> TRUE, eq |-> f.organizerId]]

\* The condition the handler builds for one status of the list.
StatusQuery(s, ev, now) ==
  IF s = "published"
  THEN ev.status = "published" /\ ev.eventStartDate > now
  ELSE IF s = "ongoing"
  THEN \/ /\ ev.status = "published"
          /\ ev.eventStartDate <= now /\ ev.eventEndDate > now
       \/ ev.status = "ongoing" /\ ev.eventEndDate > now
  ELSE \/ ev.status = "completed"
       \/ ev.status \in {"published", "ongoing"} /\ ev.eventEndDate <= now

\* Whether Event.find(q) returns ev.
Matches(ev, q, now) ==
  /\ q.statuses # {} => \E s \in q.statuses : StatusQuery(s, ev, now)
  /\ q.eventType # "none" => ev.eventType = q.eventType
  /\ q.eligibility # "none" => ev.eligibility = q.eligibility
  /\ q.startGte # NoDate => ev.eventStartDate >= q.startGte
  /\ q.startLte # NoDate => ev.eventStartDate <= q.startLte
  /\ q.organizerId.set =>
        /\ ev.organizerEnabled
        /\ q.organizerId.eq # 0 => ev.organizerId = q.organizerId.eq

\* The events of the response: what Event.find(q) returns, and of those the
\* ones the search term matches when the request carries one.
Listing(ev, q, now, search) ==
  IF ev.status # "none" /\ Matches(ev, q, now) /\ (search # 0 => ev.name = search)
  THEN <<ev>> ELSE <<>>

\* The request arrives and the handler runs up to Club.find.
ListBuildQuery(r, f) ==
  /\ Free(r)
  /\ reqs' = [reqs EXCEPT ![r] =
                [NewRequest("listEvents", "find", 0, 0, 0, 0) EXCEPT !.filter = f]]
  /\ query' = BuiltQuery(query, f)
  /\ Admit
  /\ UNCHANGED <<event, registrations, uuidCount, today, codec>>

\* The organizer condition, Event.find(query), the search and the response.
ListFind(r) ==
  LET q == reqs[r] IN
  /\ At(r, "listEvents", "find")
  /\ query' = WithOrganizer(query, q.filter)
  /\ reqs' = [reqs EXCEPT ![r] =
                [Responded(q, 200) EXCEPT
                   !.events = Listing(event, WithOrganizer(query, q.filter),
                                      today, q.filter.search)]]
  /\ UNCHANGED <<event, registrations, uuidCount, overlaps, today, codec>>

ListEvents(r) ==
  \/ \E f \in ListFilters : ListBuildQuery(r, f)
  \/ ListFind(r)

\* ------------------------------- the ticket codec (emailService.js)
\* Characters are the numbers below HexBase * HexBase, a byte each; the
\* first two are the quote and the backslash, the others are letters.
Bytes == 0..(HexBase * HexBase - 1)
Quote == 0
Backslash == 1
Letters == Bytes \ {Quote, Backslash}

\* Strings of at most n characters of S.
StringsOf(S, n) == UNION {[1..k -> S] : k \in 0..n}

\* Date.prototype.toJSON: the ISO text of an instant.
IsoString(d) == <<Backslash + 1 + d>>

\* Escape that leaves a backslash as it is.
RECURSIVE EscapeQuotesOnly(_)
EscapeQuotesOnly(str) ==
  IF str = <<>> THEN <<>>
  ELSE (IF Head(str) = Quote THEN <<Backslash, Quote>> ELSE <<Head(str)>>)
       \o EscapeQuotesOnly(Tail(str))

\* JSON.stringify of the characters of a string: a quote and a backslash
\* are preceded by a backslash.
RECURSIVE Escape(_)
Escape(str) ==
  IF str = <<>> THEN <<>>
  ELSE (IF Head(str) \in {Quote, Backslash}
        THEN <<Backslash, Head(str)>> ELSE <<Head(str)>>)
       \o Escape(Tail(str))

Quoted(str) == <<Quote>> \o Escape(str) \o <<Quote>>

\* JSON.stringify({ticketId, userId, eventId, eventName, userName,
\* registrationDate}): the values in the order of the keys, the date as its
\* ISO text.
Stringify(c) ==
  Quoted(c.ticketId) \o Quoted(c.userId) \o Quoted(c.eventId)
  \o Quoted(c.eventName) \o Quoted(c.userName)
  \o Quoted(IsoString(c.registrationDate))

ParseError == [ok |-> FALSE, values |-> <<>>]

\* JSON.parse of a string value, after its opening quote.
RECURSIVE ReadChars(_, _)
ReadChars(str, acc) ==
  IF str = <<>> THEN [ok |-> FALSE, value |-> <<>>, rest |-> <<>>]
  ELSE IF Head(str) = Quote THEN [ok |-> TRUE, value |-> acc, rest |-> Tail(str)]
  ELSE IF Head(str) = Backslash
  THEN IF Len(str) < 2 THEN [ok |-> FALSE, value |-> <<>>, rest |-> <<>>]
       ELSE ReadChars(Tail(Tail(str)), Append(acc, str[2]))
  ELSE ReadChars(Tail(str), Append(acc, Head(str)))

ReadString(str) ==
  IF str = <<>> \/ Head(str) # Quote
  THEN [ok |-> FALSE, value |-> <<>>, rest |-> <<>>]
  ELSE ReadChars(Tail(str), <<>>)

\* JSON.parse of n values; SyntaxError when the text is not n values.
RECURSIVE Parse(_, _)
Parse(str, n) ==
  IF n = 0 THEN (IF str = <<>> THEN [ok |-> TRUE, values |-> <<>>] ELSE ParseError)
  ELSE LET first == ReadString(str) IN
       IF ~first.ok THEN ParseError
       ELSE LET others == Parse(first.rest, n - 1) IN
            IF others.ok
            THEN [ok |-> TRUE, values |-> <<first.value>> \o others.values]
            ELSE ParseError

\* The padding of the cipher: 1..BlockSize bytes, each the number of them.
Pad(data) ==
  LET n == BlockSize - (Len(data) % BlockSize) IN data \o [i \in 1..n |-> n]

\* The padding removed; "bad decrypt" when it is not a padding.
Unpad(data) ==
  IF data = <<>> THEN [ok |-> FALSE, data |-> <<>>]
  ELSE LET n == data[Len(data)] IN
       IF \/ n \notin 1..BlockSize
          \/ \E i \in (Len(data) - n + 1)..Len(data) : data[i] # n
       THEN [ok |-> FALSE, data |-> <<>>]
       ELSE [ok |-> TRUE, data |-> SubSeq(data, 1, Len(data) - n)]

\* The block cipher: a permutation of the blocks chosen by the key.
EncryptBlock(key, b) ==
  [i \in 1..BlockSize |-> (b[BlockSize + 1 - i] + key) % (HexBase * HexBase)]

DecryptBlock(key, c) ==
  [i \in 1..BlockSize |->
     (c[BlockSize + 1 - i] + HexBase * HexBase - key) % (HexBase * HexBase)]

\* The chaining of a block with the block before it, and its inverse.
Mix(b, prev) == [i \in 1..BlockSize |-> (b[i] + prev[i]) % (HexBase * HexBase)]

Unmix(b, prev) ==
  [i \in 1..BlockSize |-> (b[i] + HexBase * HexBase - prev[i]) % (HexBase * HexBase)]

\* createCipheriv("aes-256-cbc", key, iv) on padded data.
RECURSIVE CbcEncrypt(_, _, _)
CbcEncrypt(key, prev, data) ==
  IF data = <<>> THEN <<>>
  ELSE LET c == EncryptBlock(key, Mix(SubSeq(data, 1, BlockSize), prev)) IN
       c \o CbcEncrypt(key, c, SubSeq(data, BlockSize + 1, Len(data)))

\* createDecipheriv("aes-256-cbc", key, iv), before the padding is removed.
RECURSIVE CbcDecrypt(_, _, _)
CbcDecrypt(key, prev, data) ==
  IF Len(data) < BlockSize THEN <<>>
  ELSE LET c == SubSeq(data, 1, BlockSize) IN
       Unmix(DecryptBlock(key, c), prev)
       \o CbcDecrypt(key, c, SubSeq(data, BlockSize + 1, Len(data)))

\* Buffer.toString("hex"): two digits for a byte.
RECURSIVE ToHex(_)
ToHex(bytes) ==
  IF bytes = <<>> THEN <<>>
  ELSE <<Head(bytes) \div HexBase, Head(bytes) % HexBase>> \o ToHex(Tail(bytes))

\* Buffer.from(text, "hex").
RECURSIVE FromHex(_)
FromHex(digits) ==
  IF Len(digits) < 2 THEN <<>>
  ELSE <<digits[1] * HexBase + digits[2]>> \o FromHex(Tail(Tail(digits)))

encryptQRData(data, key, iv) ==
  [encryptedData |-> ToHex(CbcEncrypt(key, iv, Pad(data))), iv |-> ToHex(iv)]

decryptQRData(encryptedData, ivHex, key) ==
  Unpad(CbcDecrypt(key, FromHex(ivHex), FromHex(encryptedData)))

\* generateEncryptedQRCode and the handler that stores what it returns: the
\* identity is stringified and encrypted once; the image carries the pair,
\* and the pair is stored on the registration.
Issue ==
  /\ codec.stage = "input"
  /\ LET pair == encryptQRData(Stringify(codec), codec.key, codec.iv) IN
     codec' = [codec EXCEPT
                 !.stage = "issued",
                 !.qrPayload = [data |-> pair.encryptedData, iv |-> pair.iv],
                 !.stored = [data |-> pair.encryptedData, iv |-> pair.iv]]
  /\ UNCHANGED <<event, registrations, reqs, uuidCount, overlaps, today, query>>

\* The scan of the image: decryptQRData and JSON.parse of the plaintext.
Decode ==
  /\ codec.stage = "issued"
  /\ LET plain == decryptQRData(codec.qrPayload.data, codec.qrPayload.iv, codec.key) IN
     codec' = [codec EXCEPT
                 !.stage = "decoded",
                 !.decoded = IF plain.ok THEN Parse(plain.data, 6) ELSE ParseError]
  /\ UNCHANGED <<event, registrations, reqs, uuidCount, overlaps, today, query>>

\* Identity tuples, keys and initialization vectors.
CodecInit ==
  /\ event = NoEvent
  /\ registrations = <<>>
  /\ reqs = [r \in Reqs |-> IdleReq]
  /\ uuidCount = 0
  /\ overlaps = 0
  /\ today = 0
  /\ query = EmptyQuery
  /\ codec \in {[NoCodec EXCEPT !.stage = "input", !.ticketId = t,
                                !.userId = <<Backslash + 1>>,
                                !.eventId = <<Backslash + 2>>,
                                !.eventName = en, !.userName = un,
                                !.registrationDate = d, !.key = k, !.iv = iv] :
                  t \in [1..1 -> Letters], en \in StringsOf(Bytes, MaxName),
                  un \in StringsOf(Bytes, 1), d \in 0..1,
                  k \in 1..HexBase, iv \in [1..BlockSize -> Bytes]}

CodecNext == Issue \/ Decode

CodecSpec == CodecInit /\ [][CodecNext]_vars

\* ------------------------------------------------- specifications
\* One step of the request on connection r.
Step(r) ==
  \/ Finish(r)
  \/ Register(r)
  \/ UploadPaymentProof(r)
  \/ GateLoadEvent(r)
  \/ ApprovePayment(r)
  \/ RejectPayment(r)
  \/ ApproveRegistration(r)
  \/ RejectRegistration(r)

\* Requests on MaxReqs connections, interleaved at their database operations.
Next == \E r \in Reqs : Step(r)

Spec == Init /\ [][Next]_vars

\* Sequential execution: every request is answered before the next one starts.
SeqNext == Step(1)

SeqSpec == Init /\ [][SeqNext]_vars

\* The attendance life cycle, sequentially: the event starts as the draft
\* POST / creates, and the organizer moves its status, scans tickets and
\* overrides attendance between the other requests.
AttInit ==
  /\ event \in {[ev EXCEPT !.status = "draft"] : ev \in PublishedEvents}
  /\ registrations = <<>>
  /\ reqs = [r \in Reqs |-> IdleReq]
  /\ uuidCount = 0
  /\ overlaps = 0
  /\ today = 0
  /\ codec = NoCodec
  /\ query = EmptyQuery

Attendees == 1..MaxAttendees

AttStep(r) ==
  \/ Finish(r)
  \/ SubmitRegister(r, Attendees)
  \/ RegisterSteps(r)
  \/ UploadPaymentProof(r)
  \/ GateLoadEvent(r)
  \/ ApprovePayment(r)
  \/ RejectPayment(r)
  \/ ApproveRegistration(r)
  \/ RejectRegistration(r)
  \/ PatchEvent(r)
  \/ ScanTicket(r)
  \/ ManualAttendance(r)

AttNext == AttStep(1)

AttSpec == AttInit /\ [][AttNext]_vars

\* Scan requests on a second connection, interleaved with the requests of
\* the first.
ScanNext ==
  \/ AttStep(1)
  \/ Finish(2)
  \/ ScanTicket(2)

ScanSpec == AttInit /\ [][ScanNext]_vars

\* Sequential execution on a published event, a normal one having any
\* capacity in 1..RegLimit.
CapacityInit ==
  /\ event \in {IF ev.eventType = "normal"
                 THEN [ev EXCEPT !.registrationLimit = l] ELSE ev :
                  ev \in PublishedEvents, l \in 1..RegLimit}
  /\ registrations = <<>>
  /\ reqs = [r \in Reqs |-> IdleReq]
  /\ uuidCount = 0
  /\ overlaps = 0
  /\ today = 0
  /\ codec = NoCodec
  /\ query = EmptyQuery

CapacitySpec == CapacityInit /\ [][SeqNext]_vars

\* Eligibility values of an event.
Eligibilities == {"all", "iiitans", "external"}

\* A day passes, between two requests.
Tick ==
  /\ \A r \in Reqs : reqs[r].pc = "idle"
  /\ today < MaxDay
  /\ today' = today + 1
  /\ UNCHANGED <<event, registrations, reqs, uuidCount, overlaps, codec, query>>

\* A submit that selects a variant the merchandise event does not have.
SubmitUnknownVariant(r) ==
  \E u \in Users :
     /\ event.eventType = "merchandise"
     /\ Sender(u)
     /\ StartRegister(r, u, NumVariants + 1, 1)

\* Submits, one at a time, to an event without registrations in any status,
\* with any eligibility, deadline and (normal event) capacity.
SubmitInit ==
  /\ event \in {[ev EXCEPT !.status = st, !.eligibility = el,
                           !.registrationDeadline = d,
                           !.registrationLimit =
                              IF ev.eventType = "normal" THEN l ELSE 0] :
                  ev \in PublishedEvents, st \in EventStatuses,
                  el \in Eligibilities, d \in 0..MaxDay, l \in 1..RegLimit}
  /\ registrations = <<>>
  /\ reqs = [r \in Reqs |-> IdleReq]
  /\ uuidCount = 0
  /\ overlaps = 0
  /\ today = 0
  /\ codec = NoCodec
  /\ query = EmptyQuery

SubmitNext ==
  \/ Finish(1)
  \/ SubmitRegister(1, Users)
  \/ SubmitUnknownVariant(1)
  \/ RegisterSteps(1)
  \/ Tick

SubmitSpec == SubmitInit /\ [][SubmitNext]_vars

\* The life of the event document, sequentially: the draft is edited,
\* published, moved on or deleted, between submits.
EventNext ==
  \/ Finish(1)
  \/ SubmitPatchEvent(1, PatchBodies)
  \/ PatchSteps(1)
  \/ DeleteEvent(1)
  \/ SubmitRegister(1, Attendees)
  \/ RegisterSteps(1)

EventSpec == AttInit /\ [][EventNext]_vars

\* Submits interleaved with status changes of a published event.
CompleteStep(r) ==
  \/ Finish(r)
  \/ SubmitRegister(r, Attendees)
  \/ RegisterSteps(r)
  \/ PatchEvent(r)

CompleteNext == \E r \in Reqs : CompleteStep(r)

CompleteSpec == Init /\ [][CompleteNext]_vars

\* Ticket retrieval between the requests of sequential execution.
TicketNext ==
  \/ Step(1)
  \/ TicketQR(1)

TicketSpec == Init /\ [][TicketNext]_vars

\* The operations that notify (submit, the two approvals, publishing), one
\* request at a time, on an event that starts as a draft.
NotifyNext ==
  \/ Finish(1)
  \/ PatchEvent(1)
  \/ SubmitRegister(1, Users)
  \/ RegisterSteps(1)
  \/ UploadPaymentProof(1)
  \/ GateLoadEvent(1)
  \/ ApprovePayment(1)
  \/ ApproveRegistration(1)

NotifySpec == AttInit /\ [][NotifyNext]_vars

\* The creation of an event and the edits of the draft, one request at a
\* time.
DraftInit ==
  /\ event = NoEvent
  /\ registrations = <<>>
  /\ reqs = [r \in Reqs |-> IdleReq]
  /\ uuidCount = 0
  /\ overlaps = 0
  /\ today = 0
  /\ codec = NoCodec
  /\ query = EmptyQuery

DraftNext ==
  \/ Finish(1)
  \/ CreateEvent(1)
  \/ SubmitPatchEvent(1, DraftBodies)
  \/ PatchSteps(1)

DraftSpec == DraftInit /\ [][DraftNext]_vars

\* A submit whose merchandiseSelection.quantity is missing or zero (0) or
\* negative: the Registration schema puts no minimum on it.
SubmitAnyQuantity(r) ==
  \E u \in Users, v \in VariantIds, q \in (0 - MaxQty)..0 :
     /\ event.eventType = "merchandise"
     /\ Sender(u)
     /\ StartRegister(r, u, v, q)

\* Sequential execution with submits of every quantity a client can send.
QuantityNext ==
  \/ Step(1)
  \/ SubmitAnyQuantity(1)

QuantitySpec == Init /\ [][QuantityNext]_vars

\* An event with what the listing reads of it: its dates, which POST / takes
\* in the order deadline, start, end, its name, its organizer and whether
\* that club is enabled.
Listed(ev, status, enabled) ==
  [ev EXCEPT !.status = status, !.registrationDeadline = 0]
    @@ [eventStartDate |-> 1, eventEndDate |-> MaxDay + 1, name |-> 1,
        organizerId |-> Organizer + 1, organizerEnabled |-> enabled]

\* Listings, one request at a time, of a store that holds one event, on a
\* day before, in or after the event.
ListInit ==
  /\ event \in {Listed(NewEvent(t, FALSE, 0, [v \in VariantIds |->
                           [stockQuantity |-> InitStock, price |-> 0]]), st, en) :
                  t \in {"normal", "merchandise"}, st \in EventStatuses,
                  en \in BOOLEAN}
  /\ registrations = <<>>
  /\ reqs = [r \in Reqs |-> IdleReq]
  /\ uuidCount = 0
  /\ overlaps = 0
  /\ today \in 0..(MaxDay + 1)
  /\ codec = NoCodec
  /\ query = EmptyQuery

ListNext ==
  \/ Finish(1)
  \/ ListEvents(1)

ListSpec == ListInit /\ [][ListNext]_vars

\* Scans of QR payloads, one request at a time, in the life of an event
\* that starts as a draft.
ResolveNext ==
  \/ Finish(1)
  \/ PatchEvent(1)
  \/ SubmitRegister(1, Attendees)
  \/ RegisterSteps(1)
  \/ ScanQr(1)

ResolveSpec == AttInit /\ [][ResolveNext]_vars

\* ------------------------------------------------------- properties
RECURSIVE SeqSum(_)
SeqSum(s) == IF s = <<>> THEN 0 ELSE Head(s) + SeqSum(Tail(s))

\* No request is in flight: every operation that started has completed.
Quiescent == \A r \in Reqs : ~InFlight(reqs[r])

FullyApproved(reg) ==
  GateClear(reg.paymentApprovalStatus) /\ GateClear(reg.registrationApprovalStatus)

HoldsTicket(reg) == reg.ticketId # 0 \/ reg.qrCodeEncrypted # 0

\* The sum of the selected quantities of the registrations for variant v
\* that satisfy P.
QuantityOf(v, P(_)) ==
  SeqSum([i \in DOMAIN registrations |->
            IF registrations[i].variantId = v /\ P(registrations[i])
            THEN QuantityOrOne(registrations[i].quantity) ELSE 0])

\* The registration the request on connection r acts on, as stored after
\* the step.
ActsOn(r) == registrations'[reqs[r].rid]

C2_StockNeverNegative ==
  \A v \in DOMAIN event.variants : event.variants[v].stockQuantity >= 0

PaymentApprovedReg(reg) == reg.paymentApprovalStatus = "approved"

\* C2 witness: the payments of registrations that all passed the stock check
\* have been approved for more units than the variant had, the stock is at
\* zero and the commit that would have made it negative was refused.
C2_LastUnitContended ==
  \E v \in DOMAIN event.variants :
     /\ event.variants[v].stockQuantity = 0
     /\ QuantityOf(v, PaymentApprovedReg) > InitStock
     /\ \E r \in Reqs : /\ reqs[r].pc = "done"
                        /\ reqs[r].op = "approvePayment"
                        /\ reqs[r].res = 500

C4_TicketAssignedOnce ==
  [][\A i \in DOMAIN registrations :
        registrations[i].ticketId # 0
          => registrations'[i].ticketId = registrations[i].ticketId]_vars

CommittedAtSubmit(reg) ==
  /\ reg.paymentApprovalStatus = "not_required"
  /\ reg.registrationApprovalStatus = "not_required"
  /\ reg.ticketId # 0

\* Every stored registration belongs to a different user.
OnePerUser ==
  \A i, j \in DOMAIN registrations :
     registrations[i].userId = registrations[j].userId => i = j

\* C5: the quantity committed by the submit requests of different users
\* against a variant (the registrations finalized at submission) never
\* exceeds its initial stock, also when the submits ran concurrently.
C5_SubmitsWithinStock ==
  (Quiescent /\ OnePerUser) =>
    \A v \in DOMAIN event.variants : QuantityOf(v, CommittedAtSubmit) <= InitStock

OneGateApprovedOtherPending(reg) ==
  \/ /\ reg.paymentApprovalStatus = "approved"
     /\ reg.registrationApprovalStatus = "pending"
  \/ /\ reg.paymentApprovalStatus = "pending"
     /\ reg.registrationApprovalStatus = "approved"

PaidAmount(reg) ==
  IF reg.variantId \in DOMAIN event.variants
  THEN event.variants[reg.variantId].price * QuantityOrOne(reg.quantity)
  ELSE event.registrationFee

\* C7: the persisted totalRevenue is the sum of the paid amounts of the
\* registrations whose payment was approved.
C7_RevenueMatchesApprovedPayments ==
  Quiescent =>
    event.totalRevenue =
      SeqSum([i \in DOMAIN registrations |->
                IF registrations[i].paymentApprovalStatus = "approved"
                THEN PaidAmount(registrations[i]) ELSE 0])

PaymentClear(reg) == GateClear(reg.paymentApprovalStatus)

\* C8: a registration whose payment gate is pending or rejected has
\* contributed nothing to the ledger: the stock taken out of every variant is
\* covered by the quantities of the registrations whose payment gate is
\* not_required or approved, and totalRegistrations by their number.
C8_NoCommitWithoutPayment ==
  Quiescent =>
    /\ \A v \in DOMAIN event.variants :
          InitStock - event.variants[v].stockQuantity <= QuantityOf(v, PaymentClear)
    /\ event.totalRegistrations <=
          Cardinality({i \in DOMAIN registrations : PaymentClear(registrations[i])})

C11_PendingGateKeepsPendingStatus ==
  Quiescent =>
    \A i \in DOMAIN registrations :
       (\/ registrations[i].paymentApprovalStatus = "pending"
        \/ registrations[i].registrationApprovalStatus = "pending")
          => registrations[i].status = "pending_approval"

\* C12: a registration with a rejected gate has status rejected.
C12_RejectedGateGivesRejectedStatus ==
  Quiescent =>
    \A i \in DOMAIN registrations :
       (\/ registrations[i].paymentApprovalStatus = "rejected"
        \/ registrations[i].registrationApprovalStatus = "rejected")
          => registrations[i].status = "rejected"

\* C13: after every completed operation, a registration with both gates in
\* {not_required, approved} has a ticketId and an encrypted QR payload.
C13_GatesClearImpliesTicket ==
  Quiescent =>
    \A i \in DOMAIN registrations :
       FullyApproved(registrations[i]) =>
          /\ registrations[i].ticketId # 0
          /\ registrations[i].qrCodeEncrypted # 0

\* C13 witness: the approval that cleared the last pending gate has
\* completed and the registration holds its ticket and QR payload.
C13_LastGateCleared ==
  /\ Quiescent
  /\ \E i \in DOMAIN registrations :
        /\ registrations[i].paymentApprovalStatus = "approved"
        /\ registrations[i].registrationApprovalStatus = "approved"
        /\ registrations[i].ticketId # 0
        /\ registrations[i].qrCodeEncrypted # 0

\* C14: in sequential execution, a scan that is answered 200 found the
\* ticket not yet present, has set attendanceStatus present and status
\* attended, appended one scanned entry and raised totalAttendance by exactly
\* 1; a scan of a ticket that is already present is answered 409, appends
\* exactly one duplicate_rejected entry and leaves attendanceStatus,
\* attendanceTimestamp and totalAttendance as they were; every other scan
\* changes nothing.
C14_ScanOnceThenConflict ==
  [][\A r \in Reqs :
        (reqs[r].op = "scanTicket" /\ reqs'[r].pc = "done") =>
           LET q == reqs[r]
               code == reqs'[r].res
           IN  \/ /\ code = 200
                  /\ q.orig.attendanceStatus # "present"
                  /\ registrations' = registrations
                  /\ registrations[q.rid].attendanceStatus = "present"
                  /\ registrations[q.rid].status = "attended"
                  /\ registrations[q.rid].scanHistory =
                        Append(q.orig.scanHistory, "scanned")
                  /\ event.totalAttendance = q.event.totalAttendance
                  /\ event'.totalAttendance = event.totalAttendance + 1
               \/ /\ code = 409
                  /\ registrations[q.rid].attendanceStatus = "present"
                  /\ registrations' =
                        [registrations EXCEPT ![q.rid].scanHistory =
                                                 Append(@, "duplicate_rejected")]
                  /\ event' = event
               \/ /\ code \notin {200, 409}
                  /\ registrations' = registrations
                  /\ event' = event]_vars

\* C14 witness: one ticket was scanned twice in a row: the first scan marked
\* it and counted it, the second one was logged as a duplicate.
C14_ScannedTwice ==
  /\ Quiescent
  /\ \E i \in DOMAIN registrations :
        /\ registrations[i].scanHistory = <<"scanned", "duplicate_rejected">>
        /\ registrations[i].attendanceStatus = "present"
        /\ registrations[i].status = "attended"
        /\ registrations[i].attendanceTimestamp = 1
  /\ event.totalAttendance = 1

\* The number of entries of a scanHistory with the given action.
Entries(history, action) ==
  Cardinality({k \in DOMAIN history : history[k] = action})

\* C15: whatever the interleaving of the scan requests for a ticket, as long
\* as no manual override has touched the registration, its scanHistory holds
\* at most one scanned entry and, when the scans have completed, the
\* attendance counter has counted it exactly once.
C15_ReplaysCountOnce ==
  \A i \in DOMAIN registrations :
     ~registrations[i].manualOverride =>
        /\ Entries(registrations[i].scanHistory, "scanned") <= 1
        /\ (Quiescent /\ Len(registrations) = 1) =>
              event.totalAttendance =
                 Entries(registrations[i].scanHistory, "scanned")

\* C16: a scan that marks a ticket present (200) or reports it as already
\* present (409) acted on a registration whose status was registered or
\* attended, whose two gates were clear and whose QR payload was set; a scan
\* answered otherwise changes neither the registrations nor the event.
C16_ScanOnlyIssuedTickets ==
  [][\A r \in Reqs :
        (reqs[r].op = "scanTicket" /\ reqs'[r].pc = "done") =>
           IF reqs'[r].res \in {200, 409}
           THEN /\ reqs[r].orig.status \in {"registered", "attended"}
                /\ FullyApproved(reqs[r].orig)
                /\ reqs[r].orig.qrCodeEncrypted # 0
           ELSE registrations' = registrations /\ event' = event]_vars

\* The step is one of the scan request on connection r.
ScanStep(r) ==
  reqs[r].op = "scanTicket" /\ InFlight(reqs[r]) /\ reqs'[r] # reqs[r]

\* C17: a scan that reads the event in a status other than ongoing is
\* answered 400 with that status named and changes nothing; every scan that
\* goes on, and so every scan that changes a registration or the attendance
\* counter, read the event as ongoing.
C17_ScanOnlyWhileOngoing ==
  [][\A r \in Reqs :
        ScanStep(r) =>
           IF reqs[r].pc = "loadEvent"
           THEN /\ registrations' = registrations /\ event' = event
                /\ IF event.status = "ongoing"
                   THEN reqs'[r].pc = "findTicket" /\ reqs'[r].event = event
                   ELSE /\ reqs'[r].pc = "done"
                        /\ reqs'[r].res = 400
                        /\ reqs'[r].status = event.status
           ELSE reqs[r].event.status = "ongoing"]_vars

\* C17 witness: a scan of an issued ticket has just been refused because the
\* event is still published.
C17_RefusedWhilePublished ==
  \E r \in Reqs :
     /\ reqs[r].op = "scanTicket"
     /\ reqs[r].pc = "done"
     /\ reqs[r].res = 400
     /\ reqs[r].status = "published"
     /\ event.status = "published"
     /\ \E i \in DOMAIN registrations : registrations[i].ticketId # 0

\* The gate of reg that the operation op decides.
GateOf(op, reg) ==
  IF op \in {"approvePayment", "rejectPayment"}
  THEN reg.paymentApprovalStatus ELSE reg.registrationApprovalStatus

\* C18: a gate operation that finds its gate not pending (or, for
\* approvePayment, no payment proof) is answered 400 and changes nothing, one
\* that finds it pending goes on; and in sequential execution a gate that is
\* not pending never changes.
C18_GateOpsNeedPendingGate ==
  [][/\ \A r \in Reqs :
          (/\ reqs[r].op \in {"approvePayment", "rejectPayment",
                              "approveRegistration", "rejectRegistration"}
           /\ reqs[r].pc = "loadReg"
           /\ reqs'[r] # reqs[r]) =>
             LET reg == registrations[reqs[r].rid] IN
             IF /\ GateOf(reqs[r].op, reg) = "pending"
                /\ reqs[r].op = "approvePayment" => reg.paymentProofImage
             THEN reqs'[r].pc = "saveReg"
             ELSE /\ reqs'[r].pc = "done" /\ reqs'[r].res = 400
                  /\ registrations' = registrations /\ event' = event
     /\ \A i \in DOMAIN registrations :
          /\ registrations[i].paymentApprovalStatus # "pending" =>
                registrations'[i].paymentApprovalStatus =
                   registrations[i].paymentApprovalStatus
          /\ registrations[i].registrationApprovalStatus # "pending" =>
                registrations'[i].registrationApprovalStatus =
                   registrations[i].registrationApprovalStatus]_vars

\* C18 witness: an approved payment has just been refused a second decision.
C18_ProcessedGateRefused ==
  \E r \in Reqs :
     /\ reqs[r].op \in {"approvePayment", "rejectPayment"}
     /\ reqs[r].pc = "done"
     /\ reqs[r].res = 400
     /\ registrations[reqs[r].rid].paymentApprovalStatus = "approved"

\* C19: of an approve and a reject request that run concurrently for the same
\* pending gate exactly one takes effect: a decision stored on a gate
\* (approved or rejected) is never replaced by the opposite decision.
C19_OneDecisionTakesEffect ==
  [][\A i \in DOMAIN registrations :
        \A d \in {"approved", "rejected"} :
           /\ registrations[i].paymentApprovalStatus = d =>
                 registrations'[i].paymentApprovalStatus = d
           /\ registrations[i].registrationApprovalStatus = d =>
                 registrations'[i].registrationApprovalStatus = d]_vars

\* C20: at most one registration is stored per user (for the one event),
\* also when the same user's submit requests run concurrently.
C20_OneRegistrationPerUser ==
  \A u \in Users :
     Cardinality({i \in DOMAIN registrations : registrations[i].userId = u}) <= 1

C22_SubmitComputesGates ==
  [][Len(registrations') > Len(registrations) =>
       LET reg == registrations'[Len(registrations')]
           paid == \/ /\ event.eventType = "merchandise"
                      /\ event.variants[reg.variantId].price > 0
                   \/ /\ event.eventType = "normal"
                      /\ event.registrationFee > 0
       IN  /\ reg.paymentApprovalStatus = IF paid THEN "pending" ELSE "not_required"
           /\ reg.registrationApprovalStatus =
                 IF event.requiresApproval THEN "pending" ELSE "not_required"
           /\ IF ~paid /\ ~event.requiresApproval
              THEN reg.status = "registered" /\ reg.ticketId # 0
              ELSE reg.status = "pending_approval" /\ reg.ticketId = 0]_vars

\* C22 witness: a submit to a normal event with a fee and no approval stored
\* a registration that waits for its payment only.
C22_PaidNormalSubmitted ==
  /\ event.eventType = "normal"
  /\ event.registrationFee > 0
  /\ \E i \in DOMAIN registrations :
        /\ registrations[i].paymentApprovalStatus = "pending"
        /\ registrations[i].registrationApprovalStatus = "not_required"
        /\ registrations[i].status = "pending_approval"

\* C23: a submit stores a registration only when the event is published or
\* ongoing, the deadline has not passed, the capacity is not reached, the
\* user is eligible and has no registration yet, and (merchandise) the
\* variant exists with enough stock; a submit refused with a 4xx answer has
\* changed neither the registrations nor the event.
C23_SubmitChecksBeforeCreating ==
  [][\A r \in Reqs :
        (reqs[r].op = "register" /\ InFlight(reqs[r]) /\ reqs'[r] # reqs[r]) =>
           LET q == reqs[r] IN
           /\ Len(registrations') > Len(registrations) =>
                 /\ event.status \in {"published", "ongoing"}
                 /\ today <= event.registrationDeadline
                 /\ event.eventType = "normal" =>
                       event.totalRegistrations < event.registrationLimit
                 /\ event.eligibility = "iiitans" => q.userId = 1
                 /\ event.eligibility = "external" => q.userId # 1
                 /\ \A i \in DOMAIN registrations :
                       registrations[i].userId # q.userId
                 /\ event.eventType = "merchandise" =>
                       /\ q.variantId \in DOMAIN event.variants
                       /\ event.variants[q.variantId].stockQuantity >= q.quantity
           /\ (reqs'[r].pc = "done" /\ reqs'[r].res \in {400, 403, 404, 409}) =>
                 /\ registrations' = registrations
                 /\ event' = event
                 /\ q.pc \in {"loadEvent", "findExisting"}]_vars

\* C23 witness: the second participant has just been refused by an event
\* restricted to IIITians, after the first one registered.
C23_IneligibleRefused ==
  /\ event.eligibility = "iiitans"
  /\ Len(registrations) = 1
  /\ \E r \in Reqs :
        /\ reqs[r].op = "register" /\ reqs[r].pc = "done"
        /\ reqs[r].res = 403 /\ reqs[r].userId = 2

\* C24: a manual override with a reason of at least 5 characters changes
\* totalAttendance by +1 from a status other than present to present, by -1
\* but not below 0 from present to absent, and not at all otherwise; with a
\* shorter or missing reason the request is refused and changes nothing.
C24_OverrideAdjustsBySignedDelta ==
  [][\A r \in Reqs :
        (/\ reqs[r].op = "manualAttendance" /\ InFlight(reqs[r])
         /\ reqs'[r] # reqs[r]) =>
           LET q == reqs[r]
               before == event.totalAttendance
               after == event'.totalAttendance
           IN  IF q.reasonLength < 5
               THEN /\ reqs'[r].pc = "done" /\ reqs'[r].res = 400
                    /\ registrations' = registrations /\ event' = event
               ELSE IF q.pc # "saveEvent"
               THEN event' = event
               ELSE IF q.orig.attendanceStatus # "present" /\ q.status = "present"
               THEN after = before + 1
               ELSE IF q.orig.attendanceStatus = "present" /\ q.status = "absent"
               THEN after = IF before = 0 THEN 0 ELSE before - 1
               ELSE after = before]_vars

\* C24 witness: an override has taken a scanned attendance back.
C24_PresentOverriddenToAbsent ==
  /\ Quiescent
  /\ event.totalAttendance = 0
  /\ \E i \in DOMAIN registrations :
        /\ registrations[i].scanHistory = <<"scanned", "manual_absent">>
        /\ registrations[i].attendanceStatus = "absent"

\* C25: after a scan, an override to absent and a second scan, the second
\* scan has marked the ticket again instead of reporting a duplicate: the
\* registration is present and attended, and totalAttendance is what it was
\* after the first scan.
C25_RescanAfterOverride ==
  \A i \in DOMAIN registrations :
     LET h == registrations[i].scanHistory IN
     (/\ Len(h) = 3 /\ h[1] = "scanned" /\ h[2] = "manual_absent"
      /\ h[3] \in {"scanned", "duplicate_rejected"}) =>
        /\ h[3] = "scanned"
        /\ Quiescent =>
              /\ registrations[i].attendanceStatus = "present"
              /\ registrations[i].status = "attended"
              /\ event.totalAttendance = 1

\* C25 witness: the second scan, after the override to absent, has
\* completed.
C25_Rescanned ==
  /\ Quiescent
  /\ \E i \in DOMAIN registrations :
        /\ registrations[i].scanHistory = <<"scanned", "manual_absent", "scanned">>
        /\ FullyApproved(registrations[i])
  /\ event.status = "ongoing"

\* C26: whatever the interleaving of submits with status changes, an event
\* whose stored status is completed has no registration whose
\* attendanceStatus is not_checked.
C26_CompletedLeavesNoneUnchecked ==
  event.status = "completed" =>
     \A i \in DOMAIN registrations :
        registrations[i].attendanceStatus # "not_checked"

\* C27: the stored status of an event changes only from draft to published,
\* from published to ongoing or completed and from ongoing to completed; a
\* PATCH on an ongoing or completed event that asks for anything but status
\* completed is answered 400 and leaves the event as it is.
C27_StatusMovesForward ==
  [][/\ (/\ event.status \in EventStatuses /\ event'.status \in EventStatuses
         /\ event'.status # event.status) =>
           <<event.status, event'.status>> \in
              {<<"draft", "published">>, <<"published", "ongoing">>,
               <<"published", "completed">>, <<"ongoing", "completed">>}
     /\ \A r \in Reqs :
           (/\ reqs[r].op = "patchEvent" /\ reqs[r].pc = "loadEvent"
            /\ reqs'[r] # reqs[r]
            /\ event.status \in {"ongoing", "completed"}
            /\ reqs[r].status # "completed") =>
              /\ reqs'[r].pc = "done" /\ reqs'[r].res = 400
              /\ event' = event]_vars

\* A request that asks a published event for an earlier deadline or a lower
\* limit.
Lowers(ev, q) ==
  \/ q.registrationDeadline # NoDate /\ q.registrationDeadline < ev.registrationDeadline
  \/ q.registrationLimit # 0 /\ q.registrationLimit < ev.registrationLimit

\* C28: while an event is published its registrationDeadline and
\* registrationLimit do not decrease; a PATCH that would lower either is
\* answered 400 and stores nothing, neither in the event nor in its
\* registrations.
C28_PublishedNeverLowered ==
  [][/\ event.status = "published" =>
           /\ event'.registrationDeadline >= event.registrationDeadline
           /\ event'.registrationLimit >= event.registrationLimit
     /\ \A r \in Reqs :
           (/\ reqs[r].op = "patchEvent" /\ reqs[r].pc = "loadEvent"
            /\ reqs'[r] # reqs[r]
            /\ event.status = "published"
            /\ Lowers(event, reqs[r])) =>
              /\ reqs'[r].pc = "done" /\ reqs'[r].res = 400
              /\ event' = event /\ registrations' = registrations]_vars

\* C28 witness: a PATCH on a published normal event that still has its
\* first deadline, and a registration not yet checked, has been refused: it
\* asked for an earlier deadline or a lower limit.
C28_LoweringRefused ==
  /\ event.status = "published" /\ event.eventType = "normal"
  /\ event.registrationDeadline = MaxDay
  /\ \E i \in DOMAIN registrations :
        registrations[i].attendanceStatus = "not_checked"
  /\ \E r \in Reqs :
        reqs[r].op = "patchEvent" /\ reqs[r].pc = "done" /\ reqs[r].res = 400

\* C29: an event is deleted only while it is a draft, a DELETE on any other
\* event is answered 400, and a stored registration is never removed.
C29_OnlyDraftsDeleted ==
  [][/\ (event.status # "none" /\ event'.status = "none") => event.status = "draft"
     /\ \A r \in Reqs :
           (/\ reqs[r].op = "deleteEvent" /\ reqs[r].pc = "loadEvent"
            /\ reqs'[r] # reqs[r]
            /\ event.status \in EventStatuses \ {"draft"}) =>
              reqs'[r].pc = "done" /\ reqs'[r].res = 400
     /\ Len(registrations') >= Len(registrations)
     /\ \A i \in DOMAIN registrations :
           registrations'[i].userId = registrations[i].userId]_vars

\* C29 witness: a DELETE on an event that has a registration has been
\* refused.
C29_DeleteRefused ==
  /\ Len(registrations) = 1
  /\ event.status \in {"published", "ongoing", "completed"}
  /\ \E r \in Reqs :
        reqs[r].op = "deleteEvent" /\ reqs[r].pc = "done" /\ reqs[r].res = 400

C31_NotificationFailureChangesNothing ==
  [][\A r \in Reqs :
        (InFlight(reqs[r]) /\ reqs'[r].pc = "done" /\ reqs'[r].mail = "failed") =>
           \E e \in {event'}, g \in {registrations'}, c \in {reqs'[r].res} :
              ENABLED (/\ NotifyNext
                       /\ reqs'[r].pc = "done" /\ reqs'[r].mail = "sent"
                       /\ event' = e /\ registrations' = g
                       /\ reqs'[r].res = c)]_vars

\* C31 witness: a free submit has been answered 201 although its
\* confirmation email failed; the ticket is issued and counted.
C31_SubmittedWithoutEmail ==
  \E r \in Reqs :
     /\ reqs[r].op = "register" /\ reqs[r].pc = "done"
     /\ reqs[r].res = 201 /\ reqs[r].mail = "failed"
     /\ registrations[reqs[r].rid].ticketId # 0
     /\ registrations[reqs[r].rid].qrCodeEncrypted # 0
     /\ event.totalRegistrations = 1

\* new Date(text): the instant of an ISO text.
DateOf(text) == text[1] - Backslash - 1

\* C32: decrypting the pair of the QR image with the same key and parsing
\* the result gives back the ticketId, userId, eventId, eventName, userName
\* and the instant of registrationDate that were encoded; the pair stored on
\* the registration is the pair in the image.
C32_CodecRoundTrip ==
  /\ codec.stage \in {"issued", "decoded"} => codec.stored = codec.qrPayload
  /\ codec.stage = "decoded" =>
        /\ codec.decoded.ok
        /\ SubSeq(codec.decoded.values, 1, 5) =
              <<codec.ticketId, codec.userId, codec.eventId,
                codec.eventName, codec.userName>>
        /\ DateOf(codec.decoded.values[6]) = codec.registrationDate

\* C32 witness: an identity whose event name holds a quote and a backslash
\* has been encoded and decoded.
C32_DecodedEscapedName ==
  /\ codec.stage = "decoded"
  /\ codec.eventName = <<Quote, Backslash>>
  /\ codec.decoded.ok

\* C33: a stored merchandise event has registrationFee 0 and at least one
\* variant, after its creation and after every edit of the draft.
C33_MerchandiseKeepsVariantsAndNoFee ==
  (event.status # "none" /\ event.eventType = "merchandise") =>
     /\ event.registrationFee = 0
     /\ Len(event.variants) >= 1

\* C33 witness: an edit of a merchandise draft has been refused.
C33_EmptyVariantsRefused ==
  /\ event.status = "draft" /\ event.eventType = "merchandise"
  /\ \E r \in Reqs :
        reqs[r].op = "patchEvent" /\ reqs[r].pc = "done" /\ reqs[r].res = 500

\* C34: a scan of an ongoing event whose qrData cannot be decrypted goes on
\* with the ticketId sent next to it, else with the ticketId field of the
\* qrData, else with its ticket.id field, and is refused as invalid only
\* when none is there; a refused scan changes nothing.
C34_ScanFallsBackBeforeRefusing ==
  [][\A r \in Reqs :
        (/\ reqs[r].op = "scanTicket" /\ reqs[r].pc = "loadEvent"
         /\ reqs'[r] # reqs[r]
         /\ event.status = "ongoing"
         /\ QrThrows(reqs[r].qrData)) =>
           LET q == reqs[r]
               fallback == IF q.ticketId # 0 THEN q.ticketId
                           ELSE IF q.qrData.ticketId # 0 THEN q.qrData.ticketId
                           ELSE q.qrData.ticket
           IN  IF fallback # 0
               THEN reqs'[r].pc = "findTicket" /\ reqs'[r].ticketId = fallback
               ELSE /\ reqs'[r].pc = "done" /\ reqs'[r].res = 400
                    /\ event' = event /\ registrations' = registrations]_vars

\* The audit entry the step of request q writes, "none" for a step that
\* writes none.
AuditEntry(q) ==
  IF q.op = "scanTicket" /\ q.pc = "saveReg" THEN "scanned"
  ELSE IF q.op = "scanTicket" /\ q.pc = "saveDuplicate" THEN "duplicate_rejected"
  ELSE IF q.op = "manualAttendance" /\ q.pc = "saveReg"
  THEN IF q.status = "present" THEN "manual_present" ELSE "manual_absent"
  ELSE "none"

\* C35: scanHistory only grows at its end.  A scan that succeeds leaves the
\* history it found with one scanned entry added, a duplicate scan with one
\* duplicate_rejected entry, a manual override with one manual_present or
\* manual_absent entry; every other step of every operation, the approvals,
\* rejections, proof upload and bulk absence included, leaves every history
\* as it is, and a new registration starts with an empty one.
C35_ScanHistoryAppendOnly ==
  [][/\ \A i \in DOMAIN registrations' :
          i \notin DOMAIN registrations => registrations'[i].scanHistory = <<>>
     /\ \A i \in DOMAIN registrations :
          /\ i \in DOMAIN registrations'
          /\ \/ registrations'[i].scanHistory = registrations[i].scanHistory
             \/ \E r \in Reqs :
                  /\ InFlight(reqs[r]) /\ reqs'[r] # reqs[r]
                  /\ reqs[r].rid = i /\ AuditEntry(reqs[r]) # "none"
                  /\ registrations'[i].scanHistory =
                       Append(registrations[i].scanHistory, AuditEntry(reqs[r]))
     /\ \A r \in Reqs :
          (InFlight(reqs[r]) /\ reqs'[r].pc = "done") =>
             LET q == reqs[r]
                 code == reqs'[r].res
                 entry == IF q.op = "scanTicket" /\ code = 200 THEN "scanned"
                          ELSE IF q.op = "scanTicket" /\ code = 409
                          THEN "duplicate_rejected"
                          ELSE IF q.op = "manualAttendance" /\ code = 200
                          THEN IF q.status = "present" THEN "manual_present"
                                                       ELSE "manual_absent"
                          ELSE "none"
             IN  entry # "none" =>
                    registrations'[q.rid].scanHistory =
                       Append(q.orig.scanHistory, entry)]_vars

\* C35 witness: one registration has been scanned, scanned again and
\* overridden, and its history holds the three entries in that order.
C35_ThreeEntriesInOrder ==
  /\ Quiescent
  /\ \E i \in DOMAIN registrations :
        registrations[i].scanHistory =
           <<"scanned", "duplicate_rejected", "manual_absent">>

\* C36: in every reachable state a registration has status attended exactly
\* when its attendanceStatus is present, whatever the order of scans, manual
\* overrides and approvals.
C36_AttendedIffPresent ==
  \A i \in DOMAIN registrations :
     registrations[i].status = "attended" <=>
        registrations[i].attendanceStatus = "present"

\* The registrations whose attendanceStatus is present.
Present == {i \in DOMAIN registrations : registrations[i].attendanceStatus = "present"}

\* C37: under any interleaving of scans and manual overrides, once every
\* request has been answered event.totalAttendance is the number of
\* registrations whose attendanceStatus is present.
C37_CounterMatchesPresent ==
  Quiescent => event.totalAttendance = Cardinality(Present)

\* C38: no step of submit, approvePayment or approveRegistration raises the
\* stockQuantity of a variant, whatever quantity the client sent (zero,
\* negative and missing included): a step that changes the stock lowers it
\* by a positive amount, the quantity that was checked at submit.
C38_StockNeverIncreases ==
  [][\A v \in DOMAIN event.variants :
        LET before == event.variants[v].stockQuantity
            after == event'.variants[v].stockQuantity
        IN  /\ after <= before
            /\ after # before =>
                 \E r \in Reqs :
                    LET q == reqs[r]
                        quantity == IF q.op = "register" THEN q.quantity
                                    ELSE registrations[q.rid].quantity
                    IN  /\ InFlight(q)
                        /\ QuantityOrOne(quantity) > 0
                        /\ before - after = QuantityOrOne(quantity)]_vars

\* C39: a submit that leaves a gate pending stores its registration with no
\* ticketId and is answered 201, however many stored registrations have no
\* ticket; the unique index refuses an insert only for an issued ticket id
\* that a stored registration already has.
C39_PendingSubmitsStored ==
  [][\A r \in Reqs :
        (/\ reqs[r].op = "register" /\ reqs[r].pc = "insert"
         /\ reqs'[r] # reqs[r]) =>
           LET doc == reqs[r].reg
               n == Len(registrations)
           IN  IF doc.ticketId = 0
               THEN /\ registrations' = Append(registrations, doc)
                    /\ reqs'[r].pc = "done" /\ reqs'[r].res = 201
               ELSE registrations' = registrations =>
                       \E i \in 1..n : registrations[i].ticketId = doc.ticketId]_vars

\* C40: the events a listing returns are those the filters of that request
\* select among the stored events: the response is the one a query built
\* from this request alone gives, whatever the earlier requests asked for.
C40_ListingDependsOnRequestOnly ==
  [][\A r \in Reqs :
        (reqs[r].op = "listEvents" /\ reqs[r].pc = "find" /\ reqs'[r].pc = "done") =>
           LET f == reqs[r].filter IN
           reqs'[r].events =
              Listing(event, WithOrganizer(BuiltQuery(EmptyQuery, f), f),
                      today, f.search)]_vars

====
